---- MODULE Spec2Model ----
(***************************************************************************)
(* Verification model of the SAP BTP questionnaire platform:               *)
(*   - the question flow of the Questionnaire page (visibleQuestions,      *)
(*     handleAnswerChange, handleNext, handlePrevious, the clamp effect),  *)
(*   - saveResponse against the responses table,                           *)
(*   - the weighted decision-matrix scorer (clientSideProcessing and the   *)
(*     process-submission function),                                       *)
(*   - the phase buckets of the roadmap page and of the notification mail, *)
(*   - the relevance badges, in the binary64 arithmetic of the language,   *)
(*   - loadResults, the process-submission call and its handler, with the  *)
(*     outcome of every fetch and of the mail request,                     *)
(*   - the clicks on the cards and phase headers of the results page,      *)
(*   - what a session leaves in the responses table when it ends or when   *)
(*     a save fails.                                                       *)
(* Each part has its own specification over the shared variables.          *)
(***************************************************************************)
EXTENDS Integers, Sequences, FiniteSets, TLC

VARIABLES
    flatQuestions,   \* Questionnaire.tsx: useState<FlatQuestion[]>
    answers,         \* Questionnaire.tsx: useState<Record<string, string | string[]>>
    visible,         \* Questionnaire.tsx: the useMemo value visibleQuestions
    currentIndex,    \* Questionnaire.tsx: useState(0)
    saving,          \* Questionnaire.tsx: useState(false)
    error,           \* Questionnaire.tsx: useState<string | null>(null), TRUE when set
    navigated,       \* navigate(`/thank-you/${submissionId}`) has been called
    next,            \* the handleNext call in flight: its position and its closure
    responses,       \* rows of the responses table of the submission, in table order
    savers,          \* saveResponse executions of other clients, by client
    hist,            \* observations of the last completed step (history only)
    rules,           \* rows of the decision_matrix table, in table order
    useCases,        \* rows of the use_cases table, in table order
    allUseCases,     \* ThankYou: useState<UseCase[]>, set by clientSideProcessing
    recommended,     \* process-submission: recommendedUseCases of the reply
    roadmap,         \* ThankYou: the useMemo value roadmap
    email,           \* process-submission: the phases and groups of buildEmailHtml
    loading,         \* ThankYou: useState(true)
    resultsError,    \* ThankYou: useState<string | null>(null), TRUE when set
    expandedUc,      \* ThankYou: useState<string | null>(null)
    collapsedPhases, \* ThankYou: useState<Record<string, boolean>>({}), the true keys
    relevance,       \* ThankYou: the percentage of each RelevanceBadge, by offering
    emailRelevance,  \* process-submission: the percentages relevanceBadgeHtml writes
    invoke,          \* ThankYou: the functions.invoke('process-submission') call
    reply            \* process-submission: the Response of the handler

\* the results page and the function call it starts
resultVars == <<loading, resultsError, expandedUc, collapsedPhases, relevance,
                emailRelevance, invoke, reply>>

vars == <<flatQuestions, answers, visible, currentIndex, saving, error, navigated,
          next, responses, savers, hist, rules, useCases, allUseCases,
          recommended, roadmap, email, resultVars>>

----------------------------------------------------------------------------
(* Values.  A JSON answer is a string or an array of strings.               *)

NULL == "null"

Str(s) == [isArray |-> FALSE, str |-> s, items |-> <<>>]
Arr(a) == [isArray |-> TRUE, str |-> "", items |-> a]

\* Array.prototype.includes
Includes(a, x) == \E i \in 1..Len(a) : a[i] = x

\* Array.prototype.slice(start, end) for 0 <= start <= end
Slice(a, start, end) ==
    IF start >= Len(a) THEN <<>>
    ELSE SubSeq(a, start + 1, IF end < Len(a) THEN end ELSE Len(a))

\* ids of the questions, by position in the catalog
QuestionIds == <<"Q1", "Q2", "Q3", "Q4", "Q5">>

Question(id, type, options, cq, ca) ==
    [id |-> id, question_type |-> type, options |-> options,
     condition_question_id |-> cq, condition_answer |-> ca]

----------------------------------------------------------------------------
(* Questionnaire.tsx: the question flow.                                    *)

\* JavaScript truthiness of a nullable string column: null and "" are falsy
Truthy(s) == s # NULL /\ s # ""

\* the filter callback of visibleQuestions, lines 106-113, without the
\* Array.isArray branch of line 111: a mutant
IsVisibleScalarOnly(q, ans) ==
    IF ~Truthy(q.condition_question_id) \/ ~Truthy(q.condition_answer) THEN TRUE
    ELSE IF q.condition_question_id \notin DOMAIN ans THEN FALSE
    ELSE LET condAnswer == ans[q.condition_question_id] IN
         ~condAnswer.isArray /\ condAnswer.str = q.condition_answer

\* the filter callback of visibleQuestions, lines 106-113
IsVisible(q, ans) ==
    IF ~Truthy(q.condition_question_id) \/ ~Truthy(q.condition_answer) THEN TRUE
    ELSE IF q.condition_question_id \notin DOMAIN ans THEN FALSE
    ELSE LET condAnswer == ans[q.condition_question_id] IN
         IF condAnswer.isArray THEN Includes(condAnswer.items, q.condition_answer)
         ELSE condAnswer.str = q.condition_answer

\* a question hidden with the question its condition names: a mutant
RECURSIVE visibleQuestionsCascade(_, _)
visibleQuestionsCascade(flat, ans) ==
    IF flat = <<>> THEN <<>>
    ELSE LET before == visibleQuestionsCascade(SubSeq(flat, 1, Len(flat) - 1), ans)
             q == flat[Len(flat)] IN
         IF IsVisible(q, ans)
            /\ (Truthy(q.condition_question_id) =>
                   \E k \in DOMAIN before : before[k].id = q.condition_question_id)
         THEN Append(before, q) ELSE before

visibleQuestions(flat, ans) ==
    LET Keep(q) == IsVisible(q, ans) IN SelectSeq(flat, Keep)

\* currentQ, line 116: undefined when the index is past the end
HasCurrentQ(vis, idx) == idx >= 0 /\ idx < Len(vis)

CurrentQ(vis, idx) == vis[idx + 1]

\* currentAnswer, line 117: answers[currentQ.question.id] ?? null
HasCurrentAnswer(vis, idx, ans) ==
    HasCurrentQ(vis, idx) /\ CurrentQ(vis, idx).id \in DOMAIN ans

\* isAnswered, lines 209-211, without the emptiness tests: a mutant
IsAnsweredAnyValue(vis, idx, ans) == HasCurrentAnswer(vis, idx, ans)

\* isAnswered, lines 209-211
IsAnswered(vis, idx, ans) ==
    /\ HasCurrentAnswer(vis, idx, ans)
    /\ LET currentAnswer == ans[CurrentQ(vis, idx).id] IN
       IF currentAnswer.isArray THEN Len(currentAnswer.items) > 0
       ELSE currentAnswer.str # ""

\* the effect of lines 168-172 with the test of line 169 off by one: a mutant
ClampPastEndOnly(idx, len) ==
    IF idx > len /\ len > 0 THEN len - 1 ELSE idx

\* the effect of lines 168-172, on the index and visibleQuestions.length
Clamp(idx, len) ==
    IF idx >= len /\ len > 0 THEN len - 1 ELSE idx

\* the test of line 149: advance, or else navigate to the results
AdvancesWithin(idx, len) == idx < len - 1

\* CheckboxQuestion.tsx, toggleOption, lines 14-20
ToggleOption(value, option) ==
    IF Includes(value, option)
    THEN LET Keep(v) == v # option IN SelectSeq(value, Keep)
    ELSE Append(value, option)

\* the values the component of the current question can hand to onChange,
\* lines 226-250, YesNoQuestion (part_005 lines 16-19) and CheckboxQuestion
OnChangeValues(q, ans) ==
    IF q.question_type = "YesNo" THEN {Str("Yes"), Str("No")}
    ELSE IF q.question_type = "MultipleChoice"
    THEN {Str(q.options[k]) : k \in DOMAIN q.options}
    ELSE LET value == IF q.id \in DOMAIN ans /\ ans[q.id].isArray
                      THEN ans[q.id].items ELSE <<>> IN
         {Arr(ToggleOption(value, q.options[k])) : k \in DOMAIN q.options}

\* { ...prev, [currentQ.question.id]: value }, line 121
WithAnswer(ans, id, value) ==
    [k \in DOMAIN ans \cup {id} |-> IF k = id THEN value ELSE ans[k]]

\* lines 88-91: the rows of the submission folded into a map, later rows last
RECURSIVE ExistingAnswers(_)
ExistingAnswers(rows) ==
    IF rows = <<>> THEN [q \in {} |-> Str("")]
    ELSE WithAnswer(ExistingAnswers(SubSeq(rows, 1, Len(rows) - 1)),
                    rows[Len(rows)].question_id, rows[Len(rows)].answer)

\* one step of the stable sort (a, b) => a.order - b.order, lines 67 and 70
InsertByOrder(sorted, x) ==
    LET n == Cardinality({k \in DOMAIN sorted : sorted[k].order <= x.order}) IN
    SubSeq(sorted, 1, n) \o <<x>> \o SubSeq(sorted, n + 1, Len(sorted))

RECURSIVE SortByOrder(_)
SortByOrder(list) ==
    IF list = <<>> THEN <<>>
    ELSE InsertByOrder(SortByOrder(SubSeq(list, 1, Len(list) - 1)), list[Len(list)])

\* the questions of a section in their order, lines 70-76
SectionQuestions(section) ==
    LET sortedQuestions == SortByOrder(section.questions) IN
    [k \in DOMAIN sortedQuestions |-> sortedQuestions[k].question]

\* flat, lines 66-79: the sections in their order, each with its questions
RECURSIVE FlattenSorted(_)
FlattenSorted(sortedSections) ==
    IF sortedSections = <<>> THEN <<>>
    ELSE FlattenSorted(SubSeq(sortedSections, 1, Len(sortedSections) - 1))
            \o SectionQuestions(sortedSections[Len(sortedSections)])

Flatten(sections) == FlattenSorted(SortByOrder(sections))

----------------------------------------------------------------------------
(* Questionnaire.tsx, saveResponse, against the responses table.  The table *)
(* has a generated primary key and no UNIQUE(submission_id, question_id),   *)
(* so two rows may hold the same question; a row is (question_id, answer)   *)
(* of the one submission modelled.                                          *)

Row(q, a) == [question_id |-> q, answer |-> a]

\* .delete().eq('submission_id', ...).eq('question_id', questionId), lines 125-129
DeleteRows(rows, q) ==
    LET Keep(r) == r.question_id # q IN SelectSeq(rows, Keep)

\* .insert({submission_id, question_id, answer}), lines 131-137
InsertRow(rows, q, a) == Append(rows, Row(q, a))

\* the answers of the rows of question q, in table order
RowsFor(rows, q) ==
    LET Keep(r) == r.question_id = q IN
    [k \in DOMAIN SelectSeq(rows, Keep) |-> SelectSeq(rows, Keep)[k].answer]

----------------------------------------------------------------------------
(* ThankYou (part_002), clientSideProcessing, and process-submission,       *)
(* serve: the weighted decision-matrix scorer.  useCaseScores is a          *)
(* Record<string, number> whose keys are uuids, so Object.entries lists it  *)
(* in insertion order: it is kept as the sequence of its entries.           *)

Rule(q, a, uc, w) ==
    [question_id |-> q, triggering_answer |-> a, use_case_id |-> uc, weight |-> w]

Entry(id, score) == [id |-> id, score |-> score]

MIN_SCORE == 3

\* only the first value of a multi-select answer is matched: a mutant
AnswersToCheckFirstOnly(answerValue) ==
    IF answerValue.isArray THEN Slice(answerValue.items, 0, 1) ELSE <<answerValue.str>>

\* answersToCheck, part_002 lines 143-145, index.ts lines 463-465
AnswersToCheck(answerValue) ==
    IF answerValue.isArray THEN answerValue.items ELSE <<answerValue.str>>

\* the decision_matrix query of part_002 lines 148-152, index.ts lines 468-472
Matches(table, q, a) ==
    LET Hit(r) == r.question_id = q /\ r.triggering_answer = a IN
    SelectSeq(table, Hit)

\* every match counted once, whatever its weight: a mutant
WeightOfOne(match) == 1

\* match.weight || 1, part_002 line 156, index.ts line 477
WeightOf(match) == IF match.weight = 0 THEN 1 ELSE match.weight

\* useCaseScores[id] || 0
ScoreOf(scores, id) ==
    IF \E k \in DOMAIN scores : scores[k].id = id
    THEN (CHOOSE e \in {scores[k] : k \in DOMAIN scores} : e.id = id).score
    ELSE 0

\* part_002 lines 157-158 with = for the accumulation: a mutant
AddMatchOverwrite(scores, match) ==
    IF \E k \in DOMAIN scores : scores[k].id = match.use_case_id
    THEN [k \in DOMAIN scores |->
            IF scores[k].id = match.use_case_id
            THEN Entry(scores[k].id, WeightOf(match)) ELSE scores[k]]
    ELSE Append(scores, Entry(match.use_case_id, WeightOf(match)))

\* useCaseScores[id] = (useCaseScores[id] || 0) + weight, part_002 lines
\* 157-158, index.ts lines 478-479: a new key goes last, a known key stays
AddMatch(scores, match) ==
    IF \E k \in DOMAIN scores : scores[k].id = match.use_case_id
    THEN [k \in DOMAIN scores |->
            IF scores[k].id = match.use_case_id
            THEN Entry(scores[k].id, ScoreOf(scores, scores[k].id) + WeightOf(match))
            ELSE scores[k]]
    ELSE Append(scores, Entry(match.use_case_id, 0 + WeightOf(match)))

\* for (const match of matches), part_002 lines 154-160
RECURSIVE AddMatches(_, _)
AddMatches(scores, matches) ==
    IF matches = <<>> THEN scores
    ELSE AddMatches(AddMatch(scores, Head(matches)), Tail(matches))

\* for (const answer of answersToCheck), part_002 lines 147-161
RECURSIVE ScoreAnswers(_, _, _, _)
ScoreAnswers(scores, table, q, toCheck) ==
    IF toCheck = <<>> THEN scores
    ELSE ScoreAnswers(AddMatches(scores, Matches(table, q, Head(toCheck))),
                      table, q, Tail(toCheck))

\* for (const response of responses), part_002 lines 139-162, index.ts 459-483
RECURSIVE ScoreResponses(_, _, _)
ScoreResponses(scores, table, rows) ==
    IF rows = <<>> THEN scores
    ELSE ScoreResponses(
            ScoreAnswers(scores, table, Head(rows).question_id,
                         AnswersToCheck(Head(rows).answer)),
            table, Tail(rows))

\* .filter(([, score]) => score >= MIN_SCORE) with > for >= : a mutant
AboveCutoff(entries) ==
    LET Keep(e) == e.score > MIN_SCORE IN SelectSeq(entries, Keep)

\* .filter(([, score]) => score >= MIN_SCORE), part_002 line 167, index.ts 488
FilterCutoff(entries) ==
    LET Keep(e) == e.score >= MIN_SCORE IN SelectSeq(entries, Keep)

\* one step of a sort that puts e before the entries it ties with: a mutant
InsertBeforeTies(sorted, e) ==
    LET higher == {k \in DOMAIN sorted : sorted[k].score > e.score}
        n == Cardinality(higher) IN
    SubSeq(sorted, 1, n) \o <<e>> \o SubSeq(sorted, n + 1, Len(sorted))

\* one step of the stable sort by (a, b) => b - a: e goes behind every entry
\* whose score is at least its own
InsertDescending(sorted, e) ==
    LET notLower == {k \in DOMAIN sorted : sorted[k].score >= e.score}
        n == Cardinality(notLower) IN
    SubSeq(sorted, 1, n) \o <<e>> \o SubSeq(sorted, n + 1, Len(sorted))

\* .sort(([, a], [, b]) => b - a), part_002 line 168, index.ts line 489;
\* Array.prototype.sort is stable
RECURSIVE SortDescending(_)
SortDescending(entries) ==
    IF entries = <<>> THEN <<>>
    ELSE InsertDescending(SortDescending(SubSeq(entries, 1, Len(entries) - 1)),
                          entries[Len(entries)])

\* sortedEntries, part_002 lines 166-168, index.ts lines 487-489
SortedEntries(scores) == SortDescending(FilterCutoff(scores))

\* part_002 lines 173-192, index.ts lines 494-513: the use_cases rows of the
\* sorted ids, in the order of the ids, each with its score; an id without
\* a row is dropped
Ordered(sortedEntries, ucTable) ==
    LET Found(e) == \E k \in DOMAIN ucTable : ucTable[k].id = e.id
        kept == SelectSeq(sortedEntries, Found) IN
    [k \in DOMAIN kept |->
        LET uc == ucTable[CHOOSE j \in DOMAIN ucTable :
                            /\ ucTable[j].id = kept[k].id
                            /\ \A i \in 1..(j - 1) : ucTable[i].id # kept[k].id] IN
        [id |-> uc.id, sub_category |-> uc.sub_category,
         engagement_category |-> uc.engagement_category,
         score |-> kept[k].score]]

----------------------------------------------------------------------------
(* ThankYou (part_002), roadmap, and process-submission, buildEmailHtml:    *)
(* the scored offerings by phase and, within a phase, by sub-category.  A   *)
(* Record<string, UseCase[]> is kept as the sequence of its entries, in     *)
(* insertion order.                                                         *)

\* phases, part_002 lines 32-51, and phaseOrder, index.ts line 593
phaseKeys == <<"A", "B", "C">>

\* uc.sub_category || 'Other', part_002 line 90, index.ts line 611
GroupKey(uc) == IF uc.sub_category = "" THEN "Other" ELSE uc.sub_category

\* uc.engagement_category || "B", index.ts line 596
EmailPhaseKey(uc) ==
    IF ~Truthy(uc.engagement_category) THEN "B" ELSE uc.engagement_category

\* lines 89-93 with unshift for push: a mutant
PushToGroupFront(groups, uc) ==
    IF \E k \in DOMAIN groups : groups[k].key = GroupKey(uc)
    THEN [k \in DOMAIN groups |->
            IF groups[k].key = GroupKey(uc)
            THEN [key |-> groups[k].key, useCases |-> <<uc>> \o groups[k].useCases]
            ELSE groups[k]]
    ELSE Append(groups, [key |-> GroupKey(uc), useCases |-> <<uc>>])

\* if (!groups[key]) groups[key] = []; groups[key].push(uc), part_002 lines
\* 89-93, index.ts lines 610-614
PushToGroup(groups, uc) ==
    IF \E k \in DOMAIN groups : groups[k].key = GroupKey(uc)
    THEN [k \in DOMAIN groups |->
            IF groups[k].key = GroupKey(uc)
            THEN [key |-> groups[k].key, useCases |-> Append(groups[k].useCases, uc)]
            ELSE groups[k]]
    ELSE Append(groups, [key |-> GroupKey(uc), useCases |-> <<uc>>])

RECURSIVE GroupBySubCategory(_)
GroupBySubCategory(list) ==
    IF list = <<>> THEN <<>>
    ELSE LET before == GroupBySubCategory(SubSeq(list, 1, Len(list) - 1)) IN
         PushToGroup(before, list[Len(list)])

\* Math.max(...a.map((u) => u.score)), part_002 line 96
MaxScoreOf(list) ==
    CHOOSE m \in {list[k].score : k \in DOMAIN list} :
        \A k \in DOMAIN list : list[k].score <= m

\* one step of a sort of the groups by their size, largest first: a mutant
InsertGroupBySize(sorted, g) ==
    LET n == Cardinality({k \in DOMAIN sorted :
                 Len(sorted[k].useCases) >= Len(g.useCases)}) IN
    SubSeq(sorted, 1, n) \o <<g>> \o SubSeq(sorted, n + 1, Len(sorted))

\* one step of the stable sort of part_002 lines 95-97
InsertGroup(sorted, g) ==
    LET n == Cardinality({k \in DOMAIN sorted :
                 MaxScoreOf(sorted[k].useCases) >= MaxScoreOf(g.useCases)}) IN
    SubSeq(sorted, 1, n) \o <<g>> \o SubSeq(sorted, n + 1, Len(sorted))

\* Object.entries(groups).sort(...), part_002 lines 95-97
RECURSIVE SortGroups(_)
SortGroups(groups) ==
    IF groups = <<>> THEN <<>>
    ELSE LET before == SortGroups(SubSeq(groups, 1, Len(groups) - 1)) IN
         InsertGroup(before, groups[Len(groups)])

\* allUseCases.filter((uc) => uc.engagement_category === phase.key), lines 84-86
PhaseUseCases(list, phaseKey) ==
    LET Keep(uc) == uc.engagement_category = phaseKey IN SelectSeq(list, Keep)

\* the useMemo of part_002 lines 82-100 without the filter of line 99: a mutant
RoadmapAllPhases(list) ==
    [p \in DOMAIN phaseKeys |->
        [phase |-> phaseKeys[p],
         groups |-> SortGroups(GroupBySubCategory(PhaseUseCases(list, phaseKeys[p]))),
         total |-> Len(PhaseUseCases(list, phaseKeys[p]))]]

\* the useMemo of part_002 lines 82-100
Roadmap(list) ==
    LET all == [p \in DOMAIN phaseKeys |->
                  [phase |-> phaseKeys[p],
                   groups |-> SortGroups(GroupBySubCategory(
                                  PhaseUseCases(list, phaseKeys[p]))),
                   total |-> Len(PhaseUseCases(list, phaseKeys[p]))]]
        Keep(p) == p.total > 0 IN
    SelectSeq(all, Keep)

\* grouped[phaseKey], index.ts lines 594-599
EmailPhaseUseCases(list, phaseKey) ==
    LET Keep(uc) == EmailPhaseKey(uc) = phaseKey IN SelectSeq(list, Keep)

\* the phases and sub-category groups buildEmailHtml writes, index.ts lines
\* 592-656: per group the offerings in detailed and in compact form
EmailRoadmap(list) ==
    LET all == [p \in DOMAIN phaseKeys |->
                  [phase |-> phaseKeys[p],
                   groups |-> [g \in DOMAIN GroupBySubCategory(
                                              EmailPhaseUseCases(list, phaseKeys[p])) |->
                      LET grp == GroupBySubCategory(
                                     EmailPhaseUseCases(list, phaseKeys[p]))[g] IN
                      [key |-> grp.key, useCases |-> grp.useCases,
                       top |-> Slice(grp.useCases, 0, 3),
                       rest |-> Slice(grp.useCases, 3, Len(grp.useCases))]],
                   total |-> Len(EmailPhaseUseCases(list, phaseKeys[p]))]]
        Keep(p) == p.total > 0 IN
    SelectSeq(all, Keep)

----------------------------------------------------------------------------
(* Numbers.  A JavaScript number is an IEEE 754 binary64, and the results   *)
(* of / and * are rounded to its 53 significand bits, to nearest, ties to   *)
(* even.  A positive number is kept as its significand in digits of 13      *)
(* bits, most significant first: a leading digit and four digits of         *)
(* fraction; drop is the number of low bits of the last digit that were     *)
(* rounded away, and the value is digits * 2^(-52 - shift).                 *)

Limb == 2 ^ 13

Zero == [zero |-> TRUE, limbs |-> <<0, 0, 0, 0, 0>>, drop |-> 0, shift |-> 0]

\* the next n digits of r / d, for r < d, and what is left
RECURSIVE Digits(_, _, _)
Digits(r, d, n) ==
    IF n = 0 THEN [limbs |-> <<>>, r |-> r]
    ELSE LET rest == Digits((r * Limb) % d, d, n - 1) IN
         [limbs |-> <<(r * Limb) \div d>> \o rest.limbs, r |-> rest.r]

\* digits + 1 in the last place, the last digit being below lastBase
RECURSIVE AddOne(_, _)
AddOne(limbs, lastBase) ==
    IF Len(limbs) = 1 THEN <<limbs[1] + 1>>
    ELSE IF limbs[Len(limbs)] + 1 < lastBase
         THEN Append(SubSeq(limbs, 1, Len(limbs) - 1), limbs[Len(limbs)] + 1)
         ELSE Append(AddOne(SubSeq(limbs, 1, Len(limbs) - 1), Limb), 0)

\* the k with d <= n * 2^k < 2 * d, for 0 < n <= d
RECURSIVE ShiftOf(_, _)
ShiftOf(n, d) == IF n >= d THEN 0 ELSE 1 + ShiftOf(2 * n, d)

\* n / d for integers 0 <= n <= d, 0 < d: 53 bits of the quotient, rounded
\* on the next bit and on what is left
Divide(n, d) ==
    IF n = 0 THEN Zero
    ELSE LET k == ShiftOf(n, d)
             q == Digits(n * (2 ^ k) - d, d, 4)
             guard == (2 * q.r) \div d
             below == (2 * q.r) % d # 0
             digits == <<1>> \o q.limbs
             up == guard = 1 /\ (below \/ digits[5] % 2 = 1) IN
         [zero |-> FALSE,
          limbs |-> IF up THEN AddOne(digits, Limb) ELSE digits,
          drop |-> 0, shift |-> k]

\* digits * c + carry for a small integer c
RECURSIVE TimesLimbs(_, _, _)
TimesLimbs(limbs, c, carry) ==
    IF Len(limbs) = 1 THEN <<limbs[1] * c + carry>>
    ELSE LET t == limbs[Len(limbs)] * c + carry IN
         Append(TimesLimbs(SubSeq(limbs, 1, Len(limbs) - 1), c, t \div Limb), t % Limb)

RECURSIVE BitLength(_)
BitLength(n) == IF n = 0 THEN 0 ELSE 1 + BitLength(n \div 2)

\* x * 100 for a number x of drop 0: the product has BitLength(leading
\* digit) - 1 bits too many, which are rounded away
Times100(x) ==
    IF x.zero THEN Zero
    ELSE LET p == TimesLimbs(x.limbs, 100, 0)
             drop == BitLength(p[1]) - 1
             low == p[5] % (2 ^ drop)
             half == 2 ^ (drop - 1)
             kept == SubSeq(p, 1, 4) \o <<p[5] \div (2 ^ drop)>>
             up == low > half \/ (low = half /\ kept[5] % 2 = 1) IN
         [zero |-> FALSE,
          limbs |-> IF up THEN AddOne(kept, 2 ^ (13 - drop)) ELSE kept,
          drop |-> drop, shift |-> x.shift]

\* Math.round(x) for 0 <= x < 2^13 with shift below 31: the integer part,
\* plus one when the bit of weight 1/2 is set (a tie goes up)
MathRound(x) ==
    IF x.zero THEN 0
    ELSE (x.limbs[1] \div (2 ^ x.shift))
           + (IF x.shift >= 1 THEN (x.limbs[1] \div (2 ^ (x.shift - 1))) % 2
              ELSE x.limbs[2] \div (2 ^ 12))

\* Math.round((score / maxScore) * 100), part_002 line 54
Pct(score, maxScore) == MathRound(Times100(Divide(score, maxScore)))

\* Math.max(a, b)
MathMax(a, b) == IF a >= b THEN a ELSE b

\* the useMemo maxScore, part_002 lines 76-79, and index.ts line 590
maxScore(list) == IF Len(list) = 0 THEN 1 ELSE MathMax(MaxScoreOf(list), 1)

\* the percentage of the RelevanceBadge of every offering, part_002 line 329
Relevance(list) ==
    [k \in DOMAIN list |-> Pct(list[k].score, maxScore(list))]

\* relevanceBadgeHtml(uc.score, maxScore), index.ts lines 578-579, 642, 654
EmailRelevance(list) ==
    [k \in DOMAIN list |-> Pct(list[k].score, MathMax(maxScore(list), 1))]

----------------------------------------------------------------------------
(* ThankYou (part_002), the cards of the roadmap: lines 308-320.            *)

\* const isTop = ucIdx < 3, line 311 (ucIdx counts from 0)
IsTop(ucIdx) == ucIdx < 3

\* an offering expanded only by its click: a mutant
IsExpandedByClickOnly(expanded, uc, ucIdx) == expanded = uc.id

\* const isExpanded = expandedUc === uc.id || isTop, line 312
IsExpanded(expanded, uc, ucIdx) == expanded = uc.id \/ IsTop(ucIdx)

\* the onClick of a card that never sets null: a mutant
OnCardClickOpenOnly(expanded, uc, ucIdx) ==
    IF IsTop(ucIdx) THEN expanded ELSE uc.id

\* the onClick of a card, lines 317-320
OnCardClick(expanded, uc, ucIdx) ==
    IF IsTop(ucIdx) THEN expanded
    ELSE IF expanded = uc.id THEN NULL ELSE uc.id

\* togglePhase, lines 226-228, on the set of keys that are true
TogglePhaseKey(collapsed, key) ==
    IF key \in collapsed THEN collapsed \ {key} ELSE collapsed \cup {key}

----------------------------------------------------------------------------
(* Values of the variables a specification does not exercise.               *)

pageVars == <<flatQuestions, answers, visible, currentIndex, saving, error,
              navigated, next>>

scoreVars == <<rules, useCases, allUseCases, recommended, roadmap, email>>

NoAnswers == [q \in {} |-> Str("")]

IdleNext == [pc |-> "idle", q |-> NULL, answer |-> Str(""), index |-> 0, length |-> 0]

NoHist == [op |-> "none"]

\* a state variable that holds no value yet
Unset == [set |-> FALSE, value |-> <<>>]

Set(v) == [set |-> TRUE, value |-> v]

IdleSaver == [pc |-> "idle", q |-> NULL, answer |-> Str(""), result |-> "none"]

\* the results page before its effect has run, no function call started
ResultsAtRest ==
    /\ loading = TRUE
    /\ resultsError = FALSE
    /\ expandedUc = NULL
    /\ collapsedPhases = {}
    /\ relevance = <<>>
    /\ emailRelevance = <<>>
    /\ invoke = "none"
    /\ reply = [status |-> "none"]

PageAtRest ==
    /\ currentIndex = 0
    /\ saving = FALSE
    /\ error = FALSE
    /\ navigated = FALSE
    /\ next = IdleNext

StoreAtRest ==
    /\ responses = <<>>
    /\ savers = <<>>

ScorerAtRest ==
    /\ rules = <<>>
    /\ useCases = <<>>
    /\ allUseCases = <<>>
    /\ recommended = Unset
    /\ roadmap = Unset
    /\ email = Unset

----------------------------------------------------------------------------
(* SpecVis: visibleQuestions as a function of the catalog and the answers.  *)

\* longest catalog drawn for SpecVis
MaxVisQ == 2

QuestionTypes == <<"YesNo", "Checkbox", "MultipleChoice", "YesNo", "Checkbox">>

\* condition columns: both nullable, condition_question_id references questions(id)
VisConditions(n) ==
    [q : {NULL} \cup {QuestionIds[j] : j \in 1..n}, a : {NULL, "Yes", "X"}]

VisOptions == <<"X", "Y">>

VisCatalogs(n) ==
    {[i \in 1..n |->
        Question(QuestionIds[i], QuestionTypes[i], VisOptions, c[i].q, c[i].a)] :
        c \in [1..n -> VisConditions(n)]}

VisAnswerValues ==
    {Str("Yes"), Str("No"), Arr(<<>>), Arr(<<"X">>), Arr(<<"Y", "X">>)}

VisAnswerMaps(n) ==
    UNION {[S -> VisAnswerValues] : S \in SUBSET {QuestionIds[j] : j \in 1..n}}

InitVis ==
    /\ \E n \in 1..MaxVisQ :
          /\ flatQuestions \in VisCatalogs(n)
          /\ answers \in VisAnswerMaps(n)
    /\ visible = <<>>
    /\ hist = NoHist
    /\ ResultsAtRest /\ PageAtRest /\ StoreAtRest /\ ScorerAtRest

\* one evaluation of the useMemo of lines 105-114
RenderVisible ==
    /\ hist.op = "none"
    /\ visible' = visibleQuestions(flatQuestions, answers)
    /\ hist' = [op |-> "render"]
    /\ UNCHANGED <<resultVars, flatQuestions, answers, currentIndex, saving, error, navigated,
                   next, responses, savers, scoreVars>>

NextVis == RenderVisible

SpecVis == InitVis /\ [][NextVis]_vars

\* a question has a visibility condition when both condition columns are set
HasCondition(q) == q.condition_question_id # NULL /\ q.condition_answer # NULL

\* the condition of q is met by the answers map
ConditionMet(q, ans) ==
    /\ q.condition_question_id \in DOMAIN ans
    /\ \/ /\ ~ans[q.condition_question_id].isArray
             /\ ans[q.condition_question_id].str = q.condition_answer
          \/ /\ ans[q.condition_question_id].isArray
             /\ \E k \in DOMAIN ans[q.condition_question_id].items :
                   ans[q.condition_question_id].items[k] = q.condition_answer

InSeq(s, x) == \E k \in DOMAIN s : s[k] = x

ScenarioFlat ==
    <<Question("Q1", "YesNo", <<>>, NULL, NULL),
      Question("Q2", "MultipleChoice", <<"X", "Y">>, "Q1", "Yes")>>

\* C1: the visible sequence contains a question if and only if the question
\* has no visibility condition or the answers map holds, for its controlling
\* question, a scalar equal to the required value or an array containing it;
\* with Q2 conditioned on Q1 = "Yes", {Q1: "No"} gives [Q1] and {Q1: "Yes"}
\* gives [Q1, Q2].
C1_VisibleIffConditionMet ==
    /\ hist.op = "render" =>
          \A i \in DOMAIN flatQuestions :
             InSeq(visible, flatQuestions[i])
                <=> (~HasCondition(flatQuestions[i])
                       \/ ConditionMet(flatQuestions[i], answers))
    /\ visibleQuestions(ScenarioFlat, [q \in {"Q1"} |-> Str("No")])
          = <<ScenarioFlat[1]>>
    /\ visibleQuestions(ScenarioFlat, [q \in {"Q1"} |-> Str("Yes")])
          = ScenarioFlat

\* a rendered catalog where an array answer decides a condition, met and unmet
C1_Witness ==
    /\ hist.op = "render"
    /\ \E i, j \in DOMAIN flatQuestions :
          /\ HasCondition(flatQuestions[i]) /\ HasCondition(flatQuestions[j])
          /\ flatQuestions[i].condition_question_id \in DOMAIN answers
          /\ answers[flatQuestions[i].condition_question_id].isArray
          /\ InSeq(visible, flatQuestions[i])
          /\ ~InSeq(visible, flatQuestions[j])

----------------------------------------------------------------------------
(* SpecStore: saveResponse executions of several clients (two tabs of one   *)
(* submission, or a retry racing a slow first attempt) on one table.        *)
(* SpecRetry: one client calling saveResponse again and again.              *)

\* clients that save concurrently in SpecStore
NumClients == 2

\* rows the table may hold before inserts stop being drawn
MaxRows == 3

StoreQuestions == {"Q1", "Q2"}

StoreAnswers == {Str("Yes"), Str("No")}

\* saveResponse is called: the delete request of lines 125-129 is issued
SaveCall(c, q, a) ==
    /\ savers[c].pc = "idle"
    /\ savers' = [savers EXCEPT ![c] =
                    [pc |-> "delete", q |-> q, answer |-> a, result |-> "none"]]
    /\ UNCHANGED responses

\* the delete of lines 125-129 is answered; its { error } is not looked at,
\* so a delete that failed leaves the rows and the call goes on
SaveDelete(c, ok) ==
    /\ savers[c].pc = "delete"
    /\ responses' = IF ok THEN DeleteRows(responses, savers[c].q) ELSE responses
    /\ savers' = [savers EXCEPT ![c].pc = "insert"]

\* the insert of lines 131-137 is answered; line 139 throws on an error
SaveInsert(c, ok) ==
    /\ savers[c].pc = "insert"
    /\ ok => Len(responses) < MaxRows
    /\ responses' = IF ok THEN InsertRow(responses, savers[c].q, savers[c].answer)
                     ELSE responses
    /\ savers' = [savers EXCEPT ![c].pc = "idle",
                                ![c].result = IF ok THEN "ok" ELSE "error"]

InitStore ==
    /\ responses = <<>>
    /\ savers = [c \in 1..NumClients |-> IdleSaver]
    /\ flatQuestions = <<>> /\ answers = NoAnswers /\ visible = <<>>
    /\ hist = NoHist
    /\ ResultsAtRest /\ PageAtRest /\ ScorerAtRest

StoreCall ==
    /\ \E c \in DOMAIN savers, q \in StoreQuestions, a \in StoreAnswers :
          SaveCall(c, q, a)
    /\ UNCHANGED <<resultVars, pageVars, scoreVars, hist>>

StoreDelete ==
    /\ \E c \in DOMAIN savers, ok \in BOOLEAN : SaveDelete(c, ok)
    /\ UNCHANGED <<resultVars, pageVars, scoreVars, hist>>

StoreInsert ==
    /\ \E c \in DOMAIN savers, ok \in BOOLEAN : SaveInsert(c, ok)
    /\ UNCHANGED <<resultVars, pageVars, scoreVars, hist>>

NextStore == StoreCall \/ StoreDelete \/ StoreInsert

SpecStore == InitStore /\ [][NextStore]_vars

\* C5: at most one response row per (submission, question), under any
\* sequence and interleaving of saveResponse executions.
C5_OneRowPerQuestion ==
    \A q \in StoreQuestions : Len(RowsFor(responses, q)) <= 1

----------------------------------------------------------------------------
(* SpecRetry: one client, one saveResponse at a time.  hist counts the runs *)
(* that returned normally in a row with the same arguments and keeps the    *)
(* table as the first of them left it.                                      *)

NoRuns == [op |-> "save", q |-> NULL, answer |-> Str(""), runs |-> 0, after |-> <<>>]

InitRetry ==
    /\ responses = <<>>
    /\ savers = [c \in {1} |-> IdleSaver]
    /\ flatQuestions = <<>> /\ answers = NoAnswers /\ visible = <<>>
    /\ hist = NoRuns
    /\ ResultsAtRest /\ PageAtRest /\ ScorerAtRest

RetryCall ==
    /\ \E q \in StoreQuestions, a \in StoreAnswers :
          /\ SaveCall(1, q, a)
          /\ hist' = IF hist.q = q /\ hist.answer = a THEN hist
                      ELSE [NoRuns EXCEPT !.q = q, !.answer = a]
    /\ UNCHANGED <<resultVars, pageVars, scoreVars>>

RetryDelete ==
    /\ \E ok \in BOOLEAN : SaveDelete(1, ok)
    /\ UNCHANGED <<resultVars, pageVars, scoreVars, hist>>

RetryInsert ==
    /\ \E ok \in BOOLEAN :
          /\ SaveInsert(1, ok)
          /\ hist' = IF ~ok THEN [hist EXCEPT !.runs = 0, !.after = <<>>]
                      ELSE IF hist.runs = 0
                           THEN [hist EXCEPT !.runs = 1, !.after = responses']
                           ELSE [hist EXCEPT !.runs = 2]
    /\ UNCHANGED <<resultVars, pageVars, scoreVars>>

NextRetry == RetryCall \/ RetryDelete \/ RetryInsert

SpecRetry == InitRetry /\ [][NextRetry]_vars

\* C6: saveResponse run to completion twice in a row with the same question
\* and answer leaves the table as one run left it, with exactly one row for
\* the question, holding the answer, whatever rows the question had before.
C6_RetryIdempotent ==
    (savers[1].pc = "idle" /\ hist.runs >= 1) =>
        /\ RowsFor(responses, hist.q) = <<hist.answer>>
        /\ hist.runs = 2 => responses = hist.after

----------------------------------------------------------------------------
(* SpecSession: one respondent on the Questionnaire page, after the load of *)
(* lines 43-102, with the responses table of the submission.  A handler is  *)
(* one action together with the render and the effect of lines 168-172 that *)
(* follow its state change; handleNext is three: the click, the answer to   *)
(* its delete request and the answer to its insert request, so that clicks  *)
(* on the page interleave with the save in flight.                          *)

\* failed requests drawn in one session
MaxFaults == 1

CheckboxOptions == <<"X", "Y">>

\* the catalogs a session is run on: the scenario of the specification, a
\* chain of conditions, and a condition on a later question (the schema does
\* not order conditions)
SessionCatalogs ==
    { <<Question("Q1", "YesNo", <<>>, NULL, NULL),
        Question("Q2", "Checkbox", CheckboxOptions, "Q1", "Yes")>>,
      <<Question("Q1", "YesNo", <<>>, NULL, NULL),
        Question("Q2", "YesNo", <<>>, "Q1", "Yes"),
        Question("Q3", "YesNo", <<>>, "Q2", "Yes")>>,
      <<Question("Q1", "YesNo", <<>>, "Q2", "Yes"),
        Question("Q2", "YesNo", <<>>, NULL, NULL)>> }

\* every condition names a question strictly earlier in the flat order
WellOrdered(flat) ==
    \A i \in DOMAIN flat :
        Truthy(flat[i].condition_question_id) =>
            \E j \in 1..(i - 1) : flat[j].id = flat[i].condition_question_id

Seen(op, idx, len) ==
    [op |-> op, preIndex |-> idx, preLen |-> len, faults |-> hist.faults]

\* the page renders the question card: lines 174-207 return nothing else
PageShown ==
    /\ ~error
    /\ ~navigated
    /\ HasCurrentQ(visible, currentIndex)

InitSession ==
    /\ flatQuestions \in SessionCatalogs
    /\ answers = NoAnswers
    /\ visible = visibleQuestions(flatQuestions, answers)
    /\ hist = [op |-> "load", preIndex |-> 0, preLen |-> Len(visible), faults |-> 0]
    /\ ResultsAtRest /\ PageAtRest /\ StoreAtRest /\ ScorerAtRest

\* handleAnswerChange, lines 119-122, from the component of the current
\* question; then the memo of lines 105-114 and the effect of lines 168-172
AnswerChange ==
    /\ PageShown
    /\ \E value \in OnChangeValues(CurrentQ(visible, currentIndex), answers) :
          /\ answers' = WithAnswer(answers, CurrentQ(visible, currentIndex).id, value)
          /\ visible' = visibleQuestions(flatQuestions, answers')
          /\ currentIndex' = Clamp(currentIndex, Len(visible'))
          /\ hist' = Seen("answer", currentIndex, Len(visible'))
    /\ UNCHANGED <<resultVars, flatQuestions, saving, error, navigated, next, responses,
                   savers, scoreVars>>

\* the Next button, lines 263-267, and handleNext up to its first await,
\* lines 142-147 and 125-129: the closure keeps the values of this render
NextClick ==
    /\ PageShown
    /\ IsAnswered(visible, currentIndex, answers)
    /\ ~saving
    /\ HasCurrentAnswer(visible, currentIndex, answers)
    /\ saving' = TRUE
    /\ next' = [pc |-> "delete",
                q |-> CurrentQ(visible, currentIndex).id,
                answer |-> answers[CurrentQ(visible, currentIndex).id],
                index |-> currentIndex,
                length |-> Len(visible)]
    /\ hist' = Seen("click", currentIndex, Len(visible))
    /\ UNCHANGED <<resultVars, flatQuestions, answers, visible, currentIndex, error, navigated,
                   responses, savers, scoreVars>>

\* the delete of lines 125-129 is answered; its { error } is not looked at
NextDelete ==
    /\ next.pc = "delete"
    /\ \E ok \in BOOLEAN :
          /\ ~ok => hist.faults < MaxFaults
          /\ responses' = IF ok THEN DeleteRows(responses, next.q) ELSE responses
          /\ hist' = [Seen("delete", currentIndex, Len(visible))
                         EXCEPT !.faults = IF ok THEN @ ELSE @ + 1]
    /\ next' = [next EXCEPT !.pc = "insert"]
    /\ UNCHANGED <<resultVars, flatQuestions, answers, visible, currentIndex, saving, error,
                   navigated, savers, scoreVars>>

\* the insert of lines 131-137 is answered without error: lines 149-153 and
\* 157, then the effect of lines 168-172
NextSaved ==
    /\ next.pc = "insert"
    /\ responses' = InsertRow(responses, next.q, next.answer)
    /\ IF AdvancesWithin(next.index, next.length)
       THEN /\ currentIndex' = Clamp(currentIndex + 1, Len(visible))
            /\ hist' = Seen("advance", currentIndex + 1, Len(visible))
            /\ UNCHANGED navigated
       ELSE /\ navigated' = TRUE
            /\ hist' = Seen("complete", currentIndex, Len(visible))
            /\ UNCHANGED currentIndex
    /\ saving' = FALSE
    /\ next' = IdleNext
    /\ UNCHANGED <<resultVars, flatQuestions, answers, visible, error, savers, scoreVars>>

\* the insert is answered with an error and handleNext has no finally block
\* (lines 156-158 left out): a mutant
NextFailedKeepsSaving ==
    /\ next.pc = "insert"
    /\ hist.faults < MaxFaults
    /\ error' = TRUE
    /\ next' = IdleNext
    /\ hist' = [Seen("failed", currentIndex, Len(visible)) EXCEPT !.faults = @ + 1]
    /\ UNCHANGED <<resultVars, flatQuestions, answers, visible, currentIndex, navigated,
                   responses, savers, scoreVars, saving>>

\* the insert of lines 131-137 is answered with an error: lines 139, 154-157
NextFailed ==
    /\ next.pc = "insert"
    /\ hist.faults < MaxFaults
    /\ error' = TRUE
    /\ saving' = FALSE
    /\ next' = IdleNext
    /\ hist' = [Seen("failed", currentIndex, Len(visible)) EXCEPT !.faults = @ + 1]
    /\ UNCHANGED <<resultVars, flatQuestions, answers, visible, currentIndex, navigated,
                   responses, savers, scoreVars>>

\* handlePrevious, lines 161-165, from the button of lines 254-261
Previous ==
    /\ PageShown
    /\ currentIndex > 0
    /\ currentIndex' = Clamp(currentIndex - 1, Len(visible))
    /\ hist' = Seen("previous", currentIndex - 1, Len(visible))
    /\ UNCHANGED <<resultVars, flatQuestions, answers, visible, saving, error, navigated, next,
                   responses, savers, scoreVars>>

\* the Retry button of the error screen, lines 185-199: the page is loaded
\* again and lines 81-93 read the answers back from the table
Reload ==
    /\ error
    /\ answers' = ExistingAnswers(responses)
    /\ visible' = visibleQuestions(flatQuestions, answers')
    /\ currentIndex' = 0
    /\ error' = FALSE
    /\ saving' = FALSE
    /\ next' = IdleNext
    /\ hist' = Seen("load", 0, Len(visible'))
    /\ UNCHANGED <<resultVars, flatQuestions, navigated, responses, savers, scoreVars>>

NextSession ==
    \/ AnswerChange
    \/ NextClick
    \/ NextDelete
    \/ NextSaved
    \/ NextFailed
    \/ Previous
    \/ Reload

SpecSession == InitSession /\ [][NextSession]_vars

\* a recorded answer that counts as answered: a non-empty string or array
NonEmpty(a) == IF a.isArray THEN a.items # <<>> ELSE a.str # ""

\* C7: a Next step is taken only when the value recorded for the current
\* question is a non-empty string or a non-empty array: only such a step
\* persists a row, moves the index forward or completes the session, and
\* with no value, an empty string or an empty array Next changes nothing.
C7_NextOnlyWhenAnswered ==
    /\ [](next.pc # "idle" => NonEmpty(next.answer))
    /\ [][ /\ (next.pc = "idle" /\ next'.pc # "idle") =>
                /\ HasCurrentAnswer(visible, currentIndex, answers)
                /\ NonEmpty(answers[CurrentQ(visible, currentIndex).id])
                /\ next'.q = CurrentQ(visible, currentIndex).id
                /\ next'.answer = answers[next'.q]
           /\ (Len(responses') > Len(responses)) =>
                /\ next.pc = "insert"
                /\ responses' = Append(responses, Row(next.q, next.answer))
           /\ (currentIndex' > currentIndex \/ navigated' # navigated) =>
                next.pc = "insert"
           /\ (next.pc = "idle" /\ ~IsAnswered(visible, currentIndex, answers)) =>
                /\ next' = next
                /\ responses' = responses
                /\ navigated' = navigated
                /\ currentIndex' <= currentIndex ]_vars

\* rows were persisted by Next steps, and on the current question, whose
\* recorded value is an empty array, the Next button does nothing
C7_Witness ==
    /\ PageShown
    /\ next.pc = "idle"
    /\ Len(responses) > 0
    /\ HasCurrentAnswer(visible, currentIndex, answers)
    /\ answers[CurrentQ(visible, currentIndex).id] = Arr(<<>>)

\* C8: a Next step taken at the last index of the visible sequence
\* completes the session, a Next step taken at an earlier index increases
\* the index by exactly one and does not complete it, and the session is
\* never completed from an index other than the last of the visible sequence.
C8_TerminalAtLastIndex ==
    /\ hist.op = "advance" =>
          /\ ~navigated
          /\ hist.preIndex - 1 < hist.preLen - 1
          /\ currentIndex = hist.preIndex
    /\ hist.op = "complete" => hist.preIndex = hist.preLen - 1
    /\ navigated => currentIndex = Len(visible) - 1

\* C9: an answer change that leaves the index at or past the end of a
\* non-empty visible sequence sets the index to length - 1; after any
\* sequence of answer changes, Next and Previous steps, once the effect has
\* run, 0 <= currentIndex < length and the current question is defined.
C9_IndexClamped ==
    /\ (hist.op = "answer" /\ hist.preIndex >= hist.preLen /\ hist.preLen > 0) =>
          currentIndex = Len(visible) - 1
    /\ Len(visible) > 0 =>
          /\ 0 <= currentIndex
          /\ currentIndex < Len(visible)
          /\ HasCurrentQ(visible, currentIndex)

\* an answer change has just hidden the question the index pointed at
C9_Witness ==
    /\ hist.op = "answer"
    /\ hist.preLen > 0
    /\ hist.preIndex >= hist.preLen
    /\ hist.preLen = Len(visible)

----------------------------------------------------------------------------
(* SpecScore: the scorer on every table of responses and decision rules of  *)
(* the bounds below, first on the results page and then, called by it, in   *)
(* the process-submission function.  Every query is answered: the rows are  *)
(* what the scorer computes from.                                           *)

\* rows of decision_matrix drawn
MaxRules == 2

ScoreOfferings == {"O1", "O2"}

\* weights drawn: the column default and the weight of the cutoff; the
\* migration assigns weights in 1..5
ScoreWeights == {2, 3}

\* (question_id, triggering_answer) pairs of the two questions scored
ScoreTriggers ==
    {<<"Q1", "Yes">>, <<"Q1", "No">>, <<"Q2", "X">>, <<"Q2", "Y">>}

ScoreRules ==
    {Rule(t[1], t[2], uc, w) : t \in ScoreTriggers, uc \in ScoreOfferings,
                               w \in ScoreWeights}

\* UNIQUE(question_id, use_case_id, triggering_answer), init_schema line 58
UniqueRules(table) ==
    \A i, j \in DOMAIN table :
        (/\ table[i].question_id = table[j].question_id
         /\ table[i].use_case_id = table[j].use_case_id
         /\ table[i].triggering_answer = table[j].triggering_answer) => i = j

ScoreRows ==
    {Row("Q1", Str("Yes")), Row("Q1", Str("No")), Row("Q2", Arr(<<>>)),
     Row("Q2", Arr(<<"X">>)), Row("Q2", Arr(<<"X", "Y">>)),
     Row("Q2", Arr(<<"Y", "X">>))}

\* one answer per (submission, question)
OneRowPerQuestion(table) ==
    \A i, j \in DOMAIN table : table[i].question_id = table[j].question_id => i = j

\* questions answered in a scored submission
MaxScoredQuestions == 2

UseCase(id, sub, phase) ==
    [id |-> id, sub_category |-> sub, engagement_category |-> phase]

\* decision_matrix.use_case_id REFERENCES use_cases(id): every offering a
\* rule names has its row
ScoreUseCases == <<UseCase("O1", "Data", "A"), UseCase("O2", "Security", NULL)>>

InitScore ==
    /\ \E n \in 0..MaxScoredQuestions :
          \E t \in [1..n -> ScoreRows] : OneRowPerQuestion(t) /\ responses = t
    /\ \E n \in 0..MaxRules :
          \E t \in [1..n -> ScoreRules] : UniqueRules(t) /\ rules = t
    /\ useCases = ScoreUseCases
    /\ allUseCases = <<>>
    /\ recommended = Unset
    /\ roadmap = Unset
    /\ email = Unset
    /\ hist = [op |-> "score", client |-> FALSE, useCaseScores |-> <<>>]
    /\ savers = <<>>
    /\ flatQuestions = <<>> /\ answers = NoAnswers /\ visible = <<>>
    /\ ResultsAtRest /\ PageAtRest

\* clientSideProcessing, part_002 lines 118-193
ClientSideProcessing ==
    /\ hist.op = "score" /\ ~hist.client
    /\ LET useCaseScores == ScoreResponses(<<>>, rules, responses)
           sortedEntries == SortedEntries(useCaseScores) IN
       /\ allUseCases' = IF sortedEntries = <<>> THEN <<>>
                          ELSE Ordered(sortedEntries, useCases)
       /\ hist' = [hist EXCEPT !.client = TRUE, !.useCaseScores = useCaseScores]
    /\ UNCHANGED <<resultVars, pageVars, responses, savers, rules, useCases, recommended,
                   roadmap, email>>

\* process-submission, serve, index.ts lines 458-513 and 547-554, invoked by
\* loadResults after clientSideProcessing (part_002 lines 105-110)
ServeHandler ==
    /\ hist.op = "score" /\ hist.client /\ ~recommended.set
    /\ LET useCaseScores == ScoreResponses(<<>>, rules, responses)
           sortedEntries == SortedEntries(useCaseScores) IN
       recommended' = Set(IF Len(sortedEntries) > 0
                          THEN Ordered(sortedEntries, useCases) ELSE <<>>)
    /\ UNCHANGED <<resultVars, pageVars, responses, savers, rules, useCases, allUseCases,
                   roadmap, email, hist>>

NextScore == ClientSideProcessing \/ ServeHandler

SpecScore == InitScore /\ [][NextScore]_vars

\* the answer recorded for question q equals a (scalar) or contains it (array)
Answered(rows, q, a) ==
    \E k \in DOMAIN rows :
        /\ rows[k].question_id = q
        /\ IF rows[k].answer.isArray
           THEN \E n \in DOMAIN rows[k].answer.items : rows[k].answer.items[n] = a
           ELSE rows[k].answer.str = a

\* the rules of offering uc that the answers trigger
Triggered(table, rows, uc) ==
    {k \in DOMAIN table :
        /\ table[k].use_case_id = uc
        /\ Answered(rows, table[k].question_id, table[k].triggering_answer)}

RECURSIVE SumWeights(_, _)
SumWeights(table, ks) ==
    IF ks = {} THEN 0
    ELSE LET k == CHOOSE x \in ks : TRUE IN
         table[k].weight + SumWeights(table, ks \ {k})

\* the score the specification gives offering uc
Expected(table, rows, uc) == SumWeights(table, Triggered(table, rows, uc))

Ids(list) == {list[k].id : k \in DOMAIN list}

ScenarioRules ==
    <<Rule("Q1", "Yes", "O1", 5), Rule("Q2", "X", "O1", 2), Rule("Q2", "Y", "O2", 3)>>

ScenarioResponses == <<Row("Q1", Str("Yes")), Row("Q2", Arr(<<"X", "Y">>))>>

\* the ranked list holds exactly the offerings whose score reaches MIN_SCORE
CutoffCorrect(list) ==
    \A uc \in ScoreOfferings :
        /\ uc \in Ids(list) <=> Expected(rules, responses, uc) >= MIN_SCORE
        /\ \A k \in DOMAIN list : list[k].score >= MIN_SCORE

\* C2: no offering whose accumulated score is below minScore (3) is in the
\* scorer's ranked output, and every offering whose score is at least
\* minScore is in it, on the results page and in the function's reply.
C2_CutoffCorrect ==
    /\ hist.client => CutoffCorrect(allUseCases)
    /\ recommended.set => CutoffCorrect(recommended.value)

\* the results page kept one offering and dropped one that scored below 3
C2_Witness ==
    /\ hist.client
    /\ \E uc \in ScoreOfferings : uc \in Ids(allUseCases)
    /\ \E uc \in ScoreOfferings :
          /\ Expected(rules, responses, uc) > 0
          /\ Expected(rules, responses, uc) < MIN_SCORE
          /\ uc \notin Ids(allUseCases)

\* C3: the score of an offering is the sum of the weights of all rules whose
\* question has a recorded answer that equals the triggering answer or, for
\* a multi-select answer, contains it; an offering matched by no rule is not
\* in the score map; the scenario of the specification gives O1 = 7, O2 = 3.
C3_ScoreIsSumOfWeights ==
    /\ hist.client =>
          \A uc \in ScoreOfferings :
             /\ uc \in Ids(hist.useCaseScores)
                  <=> Triggered(rules, responses, uc) # {}
             /\ \A k \in DOMAIN hist.useCaseScores :
                   hist.useCaseScores[k].id = uc =>
                      hist.useCaseScores[k].score = Expected(rules, responses, uc)
             /\ Cardinality({k \in DOMAIN hist.useCaseScores :
                                hist.useCaseScores[k].id = uc}) <= 1
    /\ ScoreResponses(<<>>, ScenarioRules, ScenarioResponses)
          = <<Entry("O1", 7), Entry("O2", 3)>>

\* one offering summed a scalar and a multi-select match, another matched
\* no rule and is not in the map
C3_Witness ==
    /\ hist.client
    /\ \E uc \in ScoreOfferings :
          /\ Cardinality(Triggered(rules, responses, uc)) >= 2
          /\ \E k \in Triggered(rules, responses, uc) : rules[k].question_id = "Q2"
          /\ \E k \in Triggered(rules, responses, uc) : rules[k].question_id = "Q1"
    /\ \E uc \in ScoreOfferings : uc \notin Ids(hist.useCaseScores)

\* the values of an answer, in the order the scorer walks them
ValuesOf(answer) == IF answer.isArray THEN answer.items ELSE <<answer.str>>

\* the places (response, value, rule), in the order of the scorer's loops,
\* at which offering uc is matched
Encounters(table, rows, uc) ==
    {<<r, v, k>> \in (DOMAIN rows) \X (1..2) \X (DOMAIN table) :
        /\ v \in DOMAIN ValuesOf(rows[r].answer)
        /\ table[k].use_case_id = uc
        /\ table[k].question_id = rows[r].question_id
        /\ table[k].triggering_answer = ValuesOf(rows[r].answer)[v]}

Earlier(x, y) ==
    \/ x[1] < y[1]
    \/ x[1] = y[1] /\ x[2] < y[2]
    \/ x[1] = y[1] /\ x[2] = y[2] /\ x[3] < y[3]

\* offering a is first encountered before offering b
FirstSeenBefore(table, rows, a, b) ==
    \E x \in Encounters(table, rows, a) :
        \A y \in Encounters(table, rows, b) : Earlier(x, y)

RankedByScoreThenEncounter(list) ==
    \A i, j \in DOMAIN list :
        i < j =>
            /\ list[i].score >= list[j].score
            /\ list[i].score = list[j].score =>
                  FirstSeenBefore(rules, responses, list[i].id, list[j].id)

\* C4: the scorer's output is ordered by non-increasing score, and two
\* offerings with equal scores appear in the order in which each was first
\* encountered while accumulating; no offering metadata orders them.
C4_DescendingStable ==
    /\ hist.client => RankedByScoreThenEncounter(allUseCases)
    /\ recommended.set => RankedByScoreThenEncounter(recommended.value)

\* two offerings tie, and the one whose use_cases row comes second is first
C4_Witness ==
    /\ recommended.set
    /\ Len(allUseCases) = 2
    /\ allUseCases[1].score = allUseCases[2].score
    /\ allUseCases[1].id = useCases[2].id
    /\ recommended.value = allUseCases

----------------------------------------------------------------------------
(* SpecRoadmap: the roadmap of the results page and of the notification     *)
(* mail, on every ranked list of scored offerings of the bounds below.      *)

\* offerings in the ranked list
MaxOfferings == 3

OfferingIds == <<"O1", "O2", "O3", "O4", "O5", "O6">>

\* use_cases.engagement_category is a nullable TEXT column
RoadmapPhases == {"A", "B", "C", NULL}

RoadmapSubCategories == {"Data", "Security"}

RoadmapScores == {3, 5}

RoadmapColumns ==
    [sub : RoadmapSubCategories, phase : RoadmapPhases, score : RoadmapScores]

\* a list the scorer can hand over: distinct offerings, every score at least
\* MIN_SCORE, in non-increasing score order
RankedList(c) ==
    [k \in DOMAIN c |-> [id |-> OfferingIds[k], sub_category |-> c[k].sub,
                         engagement_category |-> c[k].phase, score |-> c[k].score]]

InitRoadmap ==
    /\ \E n \in 0..MaxOfferings :
          \E c \in [1..n -> RoadmapColumns] :
             /\ \A i \in 1..(n - 1) : c[i].score >= c[i + 1].score
             /\ allUseCases = RankedList(c)
    /\ recommended = Set(allUseCases)
    /\ roadmap = Unset
    /\ email = Unset
    /\ rules = <<>>
    /\ useCases = <<>>
    /\ hist = NoHist
    /\ flatQuestions = <<>> /\ answers = NoAnswers /\ visible = <<>>
    /\ ResultsAtRest /\ PageAtRest /\ StoreAtRest

\* the render of the results page after setAllUseCases: part_002 lines 82-100
ComposeRoadmap ==
    /\ ~roadmap.set
    /\ roadmap' = Set(Roadmap(allUseCases))
    /\ UNCHANGED <<resultVars, pageVars, responses, savers, hist, rules, useCases, allUseCases,
                   recommended, email>>

\* buildEmailHtml(submission, recommendedUseCases, ...), index.ts line 520,
\* in the function the page has invoked
BuildEmail ==
    /\ roadmap.set /\ ~email.set
    /\ email' = Set(EmailRoadmap(recommended.value))
    /\ UNCHANGED <<resultVars, pageVars, responses, savers, hist, rules, useCases, allUseCases,
                   recommended, roadmap>>

NextRoadmap == ComposeRoadmap \/ BuildEmail

SpecRoadmap == InitRoadmap /\ [][NextRoadmap]_vars

\* offering id is listed under phase key of a composed roadmap
InPhase(composed, key, id) ==
    \E p \in DOMAIN composed :
        /\ composed[p].phase = key
        /\ \E g \in DOMAIN composed[p].groups :
              \E k \in DOMAIN composed[p].groups[g].useCases :
                 composed[p].groups[g].useCases[k].id = id

\* C10: an offering whose phase (engagement_category) is unset is placed in
\* phase bucket B of the composed roadmap, on screen and in the mail.
C10_UnsetPhaseInB ==
    \A k \in DOMAIN allUseCases :
        allUseCases[k].engagement_category = NULL =>
            /\ roadmap.set => InPhase(roadmap.value, "B", allUseCases[k].id)
            /\ email.set => InPhase(email.value, "B", allUseCases[k].id)

\* the part of C10 the mail satisfies
C10_EmailUnsetPhaseInB ==
    \A k \in DOMAIN allUseCases :
        (allUseCases[k].engagement_category = NULL /\ email.set) =>
            InPhase(email.value, "B", allUseCases[k].id)

\* the place of a phase in the canonical order A, B, C
PhaseRank(key) == IF key = "A" THEN 1 ELSE IF key = "B" THEN 2 ELSE 3

\* phase key is listed in a composed roadmap
Listed(composed, key) == \E p \in DOMAIN composed : composed[p].phase = key

PhasesInOrder(composed) ==
    \A p, q \in DOMAIN composed :
        p < q => PhaseRank(composed[p].phase) < PhaseRank(composed[q].phase)

NoEmptyPhase(composed) ==
    \A p \in DOMAIN composed :
        /\ composed[p].phase \in {"A", "B", "C"}
        /\ \E g \in DOMAIN composed[p].groups : composed[p].groups[g].useCases # <<>>

\* C11: the composed roadmap, on screen and in the mail, lists its phases in
\* the order A, B, C whatever the order of the scored offerings; a phase an
\* offering names is listed, and a phase that holds no offering is not listed.
C11_PhasesInOrderNoEmpty ==
    /\ roadmap.set =>
          /\ PhasesInOrder(roadmap.value)
          /\ NoEmptyPhase(roadmap.value)
          /\ \A k \in DOMAIN allUseCases :
                allUseCases[k].engagement_category \in {"A", "B", "C"} =>
                    Listed(roadmap.value, allUseCases[k].engagement_category)
    /\ email.set =>
          /\ PhasesInOrder(email.value)
          /\ NoEmptyPhase(email.value)
          /\ \A k \in DOMAIN recommended.value :
                recommended.value[k].engagement_category \in {"A", "B", "C"} =>
                    Listed(email.value, recommended.value[k].engagement_category)

\* the best offering is of phase C, a later one of phase A, and phase B is empty
C11_Witness ==
    /\ roadmap.set /\ email.set
    /\ Len(allUseCases) >= 2
    /\ allUseCases[1].engagement_category = "C"
    /\ allUseCases[2].engagement_category = "A"
    /\ Len(roadmap.value) = 2 /\ Len(email.value) = 2
    /\ roadmap.value[1].phase = "A" /\ email.value[1].phase = "A"

\* the spec's scenario: O3 (Data, 10), O4 (Security, 2), O5 (Data, 1), phase A
ScenarioOfferings ==
    << [id |-> "O3", sub_category |-> "Data", engagement_category |-> "A", score |-> 10],
       [id |-> "O4", sub_category |-> "Security", engagement_category |-> "A", score |-> 2],
       [id |-> "O5", sub_category |-> "Data", engagement_category |-> "A", score |-> 1] >>

GroupKeys(groups) == [g \in DOMAIN groups |-> groups[g].key]

GroupIds(groups, g) == [k \in DOMAIN groups[g].useCases |-> groups[g].useCases[k].id]

\* every offering of a later group is matched or beaten by one of an earlier group
GroupsByMaxDescending(groups) ==
    \A g, h \in DOMAIN groups :
        g < h => \A y \in DOMAIN groups[h].useCases :
                    \E x \in DOMAIN groups[g].useCases :
                        groups[g].useCases[x].score >= groups[h].useCases[y].score

\* C12: within each phase the sub-category groups are in descending order of
\* the highest score in the group, whatever the sizes of the groups, on screen
\* and in the mail; the scenario's phase A has the groups [Data, Security],
\* and Data holds [O3, O5].
C12_GroupsByMaxScore ==
    /\ roadmap.set =>
          \A p \in DOMAIN roadmap.value : GroupsByMaxDescending(roadmap.value[p].groups)
    /\ email.set =>
          \A p \in DOMAIN email.value : GroupsByMaxDescending(email.value[p].groups)
    /\ (roadmap.set \/ email.set) =>
          /\ GroupKeys(Roadmap(ScenarioOfferings)[1].groups) = <<"Data", "Security">>
          /\ GroupIds(Roadmap(ScenarioOfferings)[1].groups, 1) = <<"O3", "O5">>
          /\ GroupKeys(EmailRoadmap(ScenarioOfferings)[1].groups) = <<"Data", "Security">>
          /\ GroupIds(EmailRoadmap(ScenarioOfferings)[1].groups, 1) = <<"O3", "O5">>

\* a phase whose smaller group comes first: it holds the higher score
C12_Witness ==
    /\ roadmap.set /\ email.set
    /\ \E p \in DOMAIN roadmap.value :
          /\ Len(roadmap.value[p].groups) = 2
          /\ Len(roadmap.value[p].groups[1].useCases) = 1
          /\ Len(roadmap.value[p].groups[2].useCases) = 2
          /\ roadmap.value[p].groups[1].useCases[1].score
                > roadmap.value[p].groups[2].useCases[1].score
          /\ GroupKeys(email.value[p].groups) = GroupKeys(roadmap.value[p].groups)

\* the place of offering id in the scorer's ranked output
RankOf(list, id) == CHOOSE k \in DOMAIN list : list[k].id = id

\* C13: within every sub-category group of the on-screen roadmap the
\* offerings are in non-increasing score order and in the relative order they
\* have in the scorer's ranked output.
C13_GroupKeepsGlobalOrder ==
    roadmap.set =>
        \A p \in DOMAIN roadmap.value :
            \A g \in DOMAIN roadmap.value[p].groups :
                LET ucs == roadmap.value[p].groups[g].useCases IN
                \A i, j \in DOMAIN ucs :
                    i < j => /\ ucs[i].score >= ucs[j].score
                             /\ RankOf(allUseCases, ucs[i].id) < RankOf(allUseCases, ucs[j].id)

\* a group of two offerings that are not neighbours in the ranked output
C13_Witness ==
    /\ roadmap.set
    /\ \E p \in DOMAIN roadmap.value :
          \E g \in DOMAIN roadmap.value[p].groups :
              LET ucs == roadmap.value[p].groups[g].useCases IN
              /\ Len(ucs) = 2
              /\ ucs[1].score > ucs[2].score
              /\ RankOf(allUseCases, ucs[2].id) = RankOf(allUseCases, ucs[1].id) + 2

----------------------------------------------------------------------------
(* SpecRelevance: the relevance badges of the results page and of the       *)
(* notification mail, on every ranked list of the bounds below.             *)

\* offerings in the ranked list
MaxBadges == 2

\* the highest score of an offering
MaxRelevanceScore == 40

InitRelevance ==
    /\ \E n \in 0..MaxBadges :
          \E c \in [1..n -> MIN_SCORE..MaxRelevanceScore] :
             /\ \A i \in 1..(n - 1) : c[i] >= c[i + 1]
             /\ allUseCases = [k \in 1..n |->
                    [id |-> OfferingIds[k], sub_category |-> "Data",
                     engagement_category |-> "A", score |-> c[k]]]
    /\ recommended = Set(allUseCases)
    /\ roadmap = Unset
    /\ email = Unset
    /\ rules = <<>>
    /\ useCases = <<>>
    /\ hist = NoHist
    /\ flatQuestions = <<>> /\ answers = NoAnswers /\ visible = <<>>
    /\ ResultsAtRest /\ PageAtRest /\ StoreAtRest

\* the render of the results page after setAllUseCases: the roadmap and the
\* RelevanceBadge of every offering, part_002 lines 76-100 and 329
RenderBadges ==
    /\ ~roadmap.set
    /\ roadmap' = Set(Roadmap(allUseCases))
    /\ relevance' = Relevance(allUseCases)
    /\ UNCHANGED <<pageVars, responses, savers, hist, rules, useCases, allUseCases,
                   recommended, email, loading, resultsError, expandedUc,
                   collapsedPhases, emailRelevance, invoke, reply>>

\* buildEmailHtml(submission, recommendedUseCases, ...): the phases and the
\* relevanceBadgeHtml of every offering, index.ts lines 589-656
EmailBadges ==
    /\ ~email.set
    /\ email' = Set(EmailRoadmap(recommended.value))
    /\ emailRelevance' = EmailRelevance(recommended.value)
    /\ UNCHANGED <<pageVars, responses, savers, hist, rules, useCases, allUseCases,
                   recommended, roadmap, loading, resultsError, expandedUc,
                   collapsedPhases, relevance, invoke, reply>>

NextRelevance == RenderBadges \/ EmailBadges

SpecRelevance == InitRelevance /\ [][NextRelevance]_vars

\* the integer nearest to n / d, a tie going up
RoundedShare(n, d) == (2 * n + d) \div (2 * d)

\* the highest score of the whole result set, at least 1
TopScore(list) ==
    IF \E k \in DOMAIN list : list[k].score >= 1
    THEN CHOOSE m \in {list[k].score : k \in DOMAIN list} :
             \A k \in DOMAIN list : list[k].score <= m
    ELSE 1

RelevanceCorrect(list, pcts) ==
    /\ DOMAIN pcts = DOMAIN list
    /\ \A k \in DOMAIN list :
          /\ pcts[k] = RoundedShare(100 * list[k].score, TopScore(list))
          /\ pcts[k] \in 0..100
    /\ list # <<>> => pcts[1] = 100

\* C14: the relevance of every returned offering is round(100 * score / M),
\* M the highest score of the whole result set, at least 1; so the best
\* offering has relevance 100 and every relevance is in 0..100; scores 7
\* and 3 give 100 and 43.
C14_RelevanceIsRoundedShare ==
    /\ roadmap.set => RelevanceCorrect(allUseCases, relevance)
    /\ email.set => RelevanceCorrect(recommended.value, emailRelevance)
    /\ (roadmap.set \/ email.set) => Pct(7, 7) = 100 /\ Pct(3, 7) = 43

----------------------------------------------------------------------------
(* SpecResults: loadResults of the results page with the outcome of every   *)
(* fetch, the process-submission call it starts and does not await, and the *)
(* handler of that call with the outcome of the mail request.               *)

\* the decision_matrix queries of a scoring run, one per (question, value)
Queries(rows) ==
    UNION {{<<rows[k].question_id, AnswersToCheck(rows[k].answer)[i]>> :
               i \in DOMAIN AnswersToCheck(rows[k].answer)} : k \in DOMAIN rows}

\* what the queries return when those of lost fail: data is null and
\* `if (matches)` passes over it, part_002 line 154, index.ts line 473
Fetched(table, lost) ==
    LET Keep(r) == <<r.question_id, r.triggering_answer>> \notin lost IN
    SelectSeq(table, Keep)

\* sortedEntries of a scoring run, part_002 lines 139-168, index.ts 458-482
EntriesFrom(rows, table, lost) ==
    SortedEntries(ScoreResponses(<<>>, Fetched(table, lost), rows))

\* the list a scoring run ends with, part_002 lines 173-192 and index.ts
\* lines 487-506: empty when nothing passed the cutoff or when the use_cases
\* query failed (matchedUseCases is null)
RankedFrom(rows, table, ucTable, lost, ucOk) ==
    IF EntriesFrom(rows, table, lost) = <<>> \/ ~ucOk THEN <<>>
    ELSE Ordered(EntriesFrom(rows, table, lost), ucTable)

\* a fetch of the scoring run has failed without the run stopping
SilentFailure(rows, table, lost, ucOk) ==
    lost # {} \/ (EntriesFrom(rows, table, lost) # <<>> /\ ~ucOk)

MailOutcomes == {"sent", "refused", "threw", "unconfigured"}

Reply(status, list, rows) ==
    [status |-> status, success |-> status = 200,
     recommended_use_cases |-> list, captured_responses |-> rows]

NoReply == [status |-> "none"]

\* the mail request's exception reaching the outer catch, index.ts lines
\* 555-560: a mutant
ReplyAfterMailUncaught(mail, list, rows) ==
    IF mail = "threw" THEN Reply(500, <<>>, <<>>) ELSE Reply(200, list, rows)

\* the Response after step 5, index.ts lines 515-554: the inner try logs a
\* failure of the mail request and goes on
ReplyAfterMail(mail, list, rows) == Reply(200, list, rows)

\* an empty result taken for a failure: a mutant
ProcessingThrowsOnEmpty(respOk, sortedEntries) == ~respOk \/ sortedEntries = <<>>

\* clientSideProcessing throws: only when the responses query failed, part_002
\* lines 125-127; an empty sortedIds is a plain return, lines 173-176
ProcessingThrows(respOk, sortedEntries) == ~respOk

\* the page's error state after an awaited invoke inside the try block: a mutant
OnInvokeSettledAwaited(outcome, err) == outcome = "rejected" \/ err

\* the page's error state after the promise of functions.invoke settles:
\* nothing awaits it and .catch(() => {}) takes a rejection, part_002 lines
\* 107-110
OnInvokeSettled(outcome, err) == err

ResultRowTables ==
    {ScenarioResponses, <<Row("Q1", Str("Yes"))>>, <<Row("Q1", Str("No"))>>,
     <<Row("Q2", Arr(<<>>))>>, <<>>}

ResultRuleTables == {ScenarioRules, <<>>}

InitResults ==
    /\ responses \in ResultRowTables
    /\ rules \in ResultRuleTables
    /\ useCases = ScoreUseCases
    /\ allUseCases = <<>>
    /\ recommended = Unset
    /\ roadmap = Unset
    /\ email = Unset
    /\ hist = [op |-> "results", clientFailed |-> FALSE, serveFailed |-> FALSE,
               mail |-> "none"]
    /\ savers = <<>>
    /\ flatQuestions = <<>> /\ answers = NoAnswers /\ visible = <<>>
    /\ ResultsAtRest /\ PageAtRest

\* the effect of part_002 lines 102-199: loadResults to its finally block,
\* and the render that follows
LoadResults ==
    /\ loading
    /\ \E respOk, ucOk \in BOOLEAN, lost \in SUBSET Queries(responses) :
          IF ProcessingThrows(respOk, EntriesFrom(responses, rules, lost))
          THEN /\ resultsError' = TRUE
               /\ hist' = [hist EXCEPT !.clientFailed =
                              ~respOk \/ SilentFailure(responses, rules, lost, ucOk)]
               /\ UNCHANGED <<allUseCases, invoke>>
          ELSE /\ allUseCases' = RankedFrom(responses, rules, useCases, lost, ucOk)
               /\ invoke' = "pending"
               /\ hist' = [hist EXCEPT !.clientFailed =
                              SilentFailure(responses, rules, lost, ucOk)]
               /\ UNCHANGED resultsError
    /\ loading' = FALSE
    /\ roadmap' = Set(Roadmap(allUseCases'))
    /\ relevance' = Relevance(allUseCases')
    /\ UNCHANGED <<pageVars, responses, savers, rules, useCases, recommended, email,
                   expandedUc, collapsedPhases, emailRelevance, reply>>

\* process-submission, the serve handler, index.ts lines 404-562
Serve ==
    /\ invoke = "pending" /\ reply = NoReply
    /\ \E subOk, respOk, ucOk \in BOOLEAN, lost \in SUBSET Queries(responses),
          mail \in MailOutcomes :
          IF ~subOk \/ ~respOk
          THEN /\ reply' = Reply(IF ~subOk THEN 404 ELSE 500, <<>>, <<>>)
               /\ hist' = [hist EXCEPT !.serveFailed = TRUE]
               /\ UNCHANGED <<recommended, email, emailRelevance>>
          ELSE LET list == RankedFrom(responses, rules, useCases, lost, ucOk) IN
               /\ recommended' = Set(list)
               /\ IF mail = "unconfigured"
                  THEN UNCHANGED <<email, emailRelevance>>
                  ELSE /\ email' = Set(EmailRoadmap(list))
                       /\ emailRelevance' = EmailRelevance(list)
               /\ reply' = ReplyAfterMail(mail, list, responses)
               /\ hist' = [hist EXCEPT
                             !.serveFailed = SilentFailure(responses, rules, lost, ucOk),
                             !.mail = mail]
    /\ UNCHANGED <<pageVars, responses, savers, rules, useCases, allUseCases, roadmap,
                   loading, resultsError, expandedUc, collapsedPhases, relevance,
                   invoke>>

\* the promise of functions.invoke settles: with data (a 2xx reply), with an
\* error result, or rejected
InvokeSettles ==
    /\ invoke = "pending"
    /\ \E outcome \in {"data", "error", "rejected"} :
          /\ outcome = "data" => reply # NoReply /\ reply.status = 200
          /\ invoke' = outcome
          /\ resultsError' = OnInvokeSettled(outcome, resultsError)
    /\ UNCHANGED <<pageVars, responses, savers, hist, rules, useCases, allUseCases,
                   recommended, roadmap, email, loading, expandedUc, collapsedPhases,
                   relevance, emailRelevance, reply>>

NextResults == LoadResults \/ Serve \/ InvokeSettles

SpecResults == InitResults /\ [][NextResults]_vars

\* C15: the page computes and shows the roadmap without waiting for the
\* process-submission call: once the call is started the page has left the
\* loading state with its roadmap and no error, and whatever the call does
\* (data, error result, rejection, nothing at all) none of these changes.
C15_DispatchNonBlocking ==
    /\ [](invoke # "none" =>
             /\ ~loading /\ ~resultsError
             /\ roadmap.set /\ roadmap.value = Roadmap(allUseCases))
    /\ [][invoke # "none" =>
             UNCHANGED <<allUseCases, roadmap, loading, resultsError>>]_vars

\* the call was rejected and the page shows a non-empty roadmap
C15_Witness ==
    /\ invoke = "rejected"
    /\ ~loading /\ ~resultsError
    /\ roadmap.set /\ Len(roadmap.value) > 0

\* C16: when the mail request throws or is answered non-OK, the handler
\* still replies success with the recommended_use_cases and
\* captured_responses it computed, those of a run whose mail was sent.
C16_MailFailureSwallowed ==
    (hist.op = "results" /\ hist.mail \in {"threw", "refused"}) =>
        /\ reply.status = 200 /\ reply.success
        /\ reply.recommended_use_cases = recommended.value
        /\ reply.captured_responses = responses
        /\ ~hist.serveFailed => CutoffCorrect(reply.recommended_use_cases)

\* the mail request threw and the reply carries both offerings of the scenario
C16_Witness ==
    /\ hist.op = "results" /\ hist.mail = "threw"
    /\ reply.status = 200
    /\ Len(reply.recommended_use_cases) = 2

\* C17: a failed fetch of the scoring data ends in an error outcome: the
\* page is in its error state, the handler replies with an error.
C17_FetchFailureSurfaced ==
    hist.op = "results" =>
        /\ hist.clientFailed => resultsError
        /\ hist.serveFailed => reply.status # 200

----------------------------------------------------------------------------
(* SpecFlow: the session of SpecSession on catalogs flattened from the      *)
(* sections the page has fetched.                                           *)

Section(title, order, questions) ==
    [title |-> title, order |-> order, questions |-> questions]

InOrder(q, order) == [question |-> q, order |-> order]

\* the sections of a questionnaire as the query of lines 56-60 returns them:
\* sections by order, the questions of a section in no particular order
FlowSections ==
    { << Section("S1", 1, << InOrder(Question("Q2", "YesNo", <<>>, NULL, NULL), 2),
                             InOrder(Question("Q1", "YesNo", <<>>, NULL, NULL), 1) >>),
         Section("S2", 2, << InOrder(Question("Q3", "YesNo", <<>>, "Q1", "Yes"), 1) >>) >>,
      << Section("S1", 1, << InOrder(Question("Q3", "YesNo", <<>>, "Q2", "Yes"), 3),
                             InOrder(Question("Q1", "YesNo", <<>>, NULL, NULL), 1),
                             InOrder(Question("Q2", "YesNo", <<>>, "Q1", "Yes"), 2) >>) >> }

InitFlow ==
    /\ \E sections \in FlowSections : flatQuestions = Flatten(sections)
    /\ answers = NoAnswers
    /\ visible = visibleQuestions(flatQuestions, answers)
    /\ hist = [op |-> "load", preIndex |-> 0, preLen |-> Len(visible), faults |-> 0]
    /\ ResultsAtRest /\ PageAtRest /\ StoreAtRest /\ ScorerAtRest

SpecFlow == InitFlow /\ [][NextSession]_vars

\* the questions whose answer a step has changed
Changed ==
    {id \in DOMAIN answers \cup DOMAIN answers' :
        \/ id \notin DOMAIN answers
        \/ id \notin DOMAIN answers'
        \/ answers[id] # answers'[id]}

\* (section order, question order) of question id in the fetched sections
CanonicalKey(sections, id) ==
    CHOOSE key \in UNION {{<<sections[i].order, sections[i].questions[j].order>> :
                              j \in DOMAIN sections[i].questions} : i \in DOMAIN sections} :
        \E i \in DOMAIN sections : \E j \in DOMAIN sections[i].questions :
            /\ sections[i].questions[j].question.id = id
            /\ key = <<sections[i].order, sections[i].questions[j].order>>

KeyBefore(a, b) == a[1] < b[1] \/ (a[1] = b[1] /\ a[2] < b[2])

\* flat holds every question of the sections once, sections by order, then
\* questions by order within a section
IsCanonical(flat, sections) ==
    /\ \A i \in DOMAIN sections : \A j \in DOMAIN sections[i].questions :
          \E k \in DOMAIN flat : flat[k] = sections[i].questions[j].question
    /\ \A k, l \in DOMAIN flat :
          k < l => KeyBefore(CanonicalKey(sections, flat[k].id),
                             CanonicalKey(sections, flat[l].id))

IsSubsequence(sub, seq) ==
    /\ \A i \in DOMAIN sub : InSeq(seq, sub[i])
    /\ \A i, j \in DOMAIN sub :
          i < j => \E k, l \in DOMAIN seq : k < l /\ seq[k] = sub[i] /\ seq[l] = sub[j]

\* C18: a step that changes the answer to a question changes the visibility
\* only of questions whose condition names that question; the visible
\* sequence is a subsequence of the flat order (sections by order, then
\* questions by order), with every unconditional question in it.
C18_FrameOfAnswerChange ==
    /\ [](/\ \E sections \in FlowSections :
                flatQuestions = Flatten(sections) /\ IsCanonical(flatQuestions, sections)
          /\ IsSubsequence(visible, flatQuestions)
          /\ \A k \in DOMAIN flatQuestions :
                ~HasCondition(flatQuestions[k]) => InSeq(visible, flatQuestions[k]))
    /\ [][\A k \in DOMAIN flatQuestions :
             flatQuestions[k].condition_question_id \notin Changed =>
                (InSeq(visible, flatQuestions[k]) <=> InSeq(visible', flatQuestions[k]))]_vars

\* Q1 was changed to No after Q2 got Yes: Q2 is hidden, Q3 (on Q2) is not
C18_Witness ==
    /\ Len(flatQuestions) = 3
    /\ flatQuestions[3].condition_question_id = "Q2"
    /\ hist.op = "answer"
    /\ "Q1" \in DOMAIN answers /\ answers["Q1"] = Str("No")
    /\ ~InSeq(visible, flatQuestions[2])
    /\ InSeq(visible, flatQuestions[3])

----------------------------------------------------------------------------
(* SpecExpand: the clicks on the loaded results page, and the mail.         *)

\* offerings in the ranked list
MaxCards == 4

ExpandColumns == [sub : {"Data", "Security"}, phase : {"A", "B"}, score : {MIN_SCORE}]

InitExpand ==
    /\ \E n \in 0..MaxCards :
          \E c \in [1..n -> ExpandColumns] : allUseCases = RankedList(c)
    /\ recommended = Set(allUseCases)
    /\ roadmap = Set(Roadmap(allUseCases))
    /\ relevance = Relevance(allUseCases)
    /\ loading = FALSE
    /\ resultsError = FALSE
    /\ expandedUc = NULL
    /\ collapsedPhases = {}
    /\ emailRelevance = <<>>
    /\ invoke = "pending"
    /\ reply = NoReply
    /\ email = Unset
    /\ rules = <<>>
    /\ useCases = <<>>
    /\ hist = NoHist
    /\ flatQuestions = <<>> /\ answers = NoAnswers /\ visible = <<>>
    /\ PageAtRest /\ StoreAtRest

\* a click on the card of an offering of a phase that is open, lines 316-320
ClickOffering ==
    /\ \E p \in DOMAIN roadmap.value :
          /\ roadmap.value[p].phase \notin collapsedPhases
          /\ \E g \in DOMAIN roadmap.value[p].groups :
                \E k \in DOMAIN roadmap.value[p].groups[g].useCases :
                   LET uc == roadmap.value[p].groups[g].useCases[k] IN
                   /\ expandedUc' = OnCardClick(expandedUc, uc, k - 1)
                   /\ hist' = [op |-> "click", id |-> uc.id, before |-> expandedUc]
    /\ UNCHANGED <<pageVars, responses, savers, rules, useCases, allUseCases,
                   recommended, roadmap, email, loading, resultsError,
                   collapsedPhases, relevance, emailRelevance, invoke, reply>>

\* a click on the header of a phase, lines 273-275 and 226-228
TogglePhase ==
    /\ \E p \in DOMAIN roadmap.value :
          /\ collapsedPhases' = TogglePhaseKey(collapsedPhases, roadmap.value[p].phase)
          /\ hist' = [op |-> "phase", id |-> roadmap.value[p].phase]
    /\ UNCHANGED <<pageVars, responses, savers, rules, useCases, allUseCases,
                   recommended, roadmap, email, loading, resultsError, expandedUc,
                   relevance, emailRelevance, invoke, reply>>

NextExpand == ClickOffering \/ TogglePhase \/ BuildEmail

SpecExpand == InitExpand /\ [][NextExpand]_vars

\* offering id is one of the first three of its group in a composed roadmap
AmongFirstThree(composed, id) ==
    \E p \in DOMAIN composed : \E g \in DOMAIN composed[p].groups :
        \E k \in DOMAIN composed[p].groups[g].useCases :
            k <= 3 /\ composed[p].groups[g].useCases[k].id = id

----------------------------------------------------------------------------
(* Order of the answers, under SpecScore.                                   *)

\* the orders in which the values of an answer can have been recorded
ItemOrders(answer) ==
    IF answer.isArray
    THEN {Arr([k \in DOMAIN answer.items |-> answer.items[p[k]]]) :
             p \in {f \in [DOMAIN answer.items -> DOMAIN answer.items] :
                       \A i, j \in DOMAIN f : f[i] = f[j] => i = j}}
    ELSE {answer}

\* the tables that hold the rows of a table in any order, the values of every
\* multi-select answer in any order
Reorderings(rows) ==
    LET perms == {f \in [DOMAIN rows -> DOMAIN rows] :
                     \A i, j \in DOMAIN f : f[i] = f[j] => i = j}
        choices == UNION {ItemOrders(rows[k].answer) : k \in DOMAIN rows} IN
    UNION {{[k \in DOMAIN rows |-> Row(rows[p[k]].question_id, a[k])] :
               a \in {b \in [DOMAIN rows -> choices] :
                        \A k \in DOMAIN rows : b[k] \in ItemOrders(rows[p[k]].answer)}} :
           p \in perms}

ScoreSet(entries) == {<<entries[k].id, entries[k].score>> : k \in DOMAIN entries}

\* C20: the score of every offering and the set of offerings that pass the
\* cutoff depend on the set of (question, value) answers only: the scorer
\* gives the same for the rows in any order and the values of a multi-select
\* answer in any order.
C20_ScoreCommutative ==
    (hist.op = "score" /\ hist.client) =>
        \A r \in Reorderings(responses) :
            /\ ScoreSet(ScoreResponses(<<>>, rules, r)) = ScoreSet(hist.useCaseScores)
            /\ ScoreSet(SortedEntries(ScoreResponses(<<>>, rules, r)))
                  = ScoreSet(allUseCases)
            /\ recommended.set =>
                  ScoreSet(SortedEntries(ScoreResponses(<<>>, rules, r)))
                     = ScoreSet(recommended.value)

\* two rows, one of them a multi-select answer of two values, and an
\* offering whose score comes from both rows
C20_Witness ==
    /\ hist.op = "score" /\ hist.client /\ recommended.set
    /\ Len(responses) = 2
    /\ \E k \in DOMAIN responses :
          responses[k].answer.isArray /\ Len(responses[k].answer.items) = 2
    /\ \E k \in DOMAIN allUseCases : allUseCases[k].score = 5
    /\ Cardinality(Reorderings(responses)) = 4

----------------------------------------------------------------------------
(* One more decision rule, under SpecScore.                                 *)

\* the score of offering uc in a score map, 0 when it has no entry
ScoreFor(entries, uc) ==
    IF \E k \in DOMAIN entries : entries[k].id = uc
    THEN (CHOOSE e \in {entries[k] : k \in DOMAIN entries} : e.id = uc).score
    ELSE 0

\* table with rule r as its row number i + 1
InsertedAt(table, i, r) ==
    SubSeq(table, 1, i) \o <<r>> \o SubSeq(table, i + 1, Len(table))

\* C21: for fixed answers, one more decision rule (weight >= 1) that matches
\* an answer decreases no offering's score: the score of the rule's offering
\* grows by the rule's weight and every other score stays as it is.
C21_AddingRuleMonotone ==
    (hist.op = "score" /\ hist.client) =>
        \A r \in ScoreRules :
            (/\ r.weight >= 1
             /\ Answered(responses, r.question_id, r.triggering_answer)
             /\ UniqueRules(Append(rules, r))) =>
                \A i \in {0, Len(rules)} : \A uc \in ScoreOfferings :
                    ScoreFor(ScoreResponses(<<>>, InsertedAt(rules, i, r), responses), uc)
                       = ScoreFor(hist.useCaseScores, uc)
                            + (IF uc = r.use_case_id THEN r.weight ELSE 0)

\* both offerings are scored and a further rule for one of them matches an
\* answer
C21_Witness ==
    /\ hist.op = "score" /\ hist.client
    /\ \A uc \in ScoreOfferings : ScoreFor(hist.useCaseScores, uc) > 0
    /\ \E r \in ScoreRules :
          /\ Answered(responses, r.question_id, r.triggering_answer)
          /\ UniqueRules(Append(rules, r))
          /\ r.weight = 3

----------------------------------------------------------------------------
(* The degenerate inputs, under SpecResults.                                *)

\* no rule of the table is triggered by an answer of the rows
NoMatch(table, rows) ==
    \A k \in DOMAIN table :
        ~Answered(rows, table[k].question_id, table[k].triggering_answer)

\* C22: with no answers, or no rule (none at all included) matching an
\* answer, scoring ends with an empty result list and no error: the page
\* shows an empty roadmap without its error state, the handler replies
\* success with an empty list.
C22_EmptyResultNotAnError ==
    (hist.op = "results" /\ NoMatch(rules, responses)) =>
        /\ (~loading /\ ~hist.clientFailed) =>
              /\ ~resultsError
              /\ allUseCases = <<>>
              /\ roadmap.set /\ roadmap.value = <<>>
        /\ (reply # NoReply /\ ~hist.serveFailed) =>
              /\ reply.status = 200 /\ reply.success
              /\ reply.recommended_use_cases = <<>>

\* answers that trigger nothing, scored by the page and by the handler
C22_Witness ==
    /\ hist.op = "results"
    /\ responses # <<>> /\ rules # <<>> /\ NoMatch(rules, responses)
    /\ ~loading /\ ~hist.clientFailed
    /\ reply # NoReply /\ ~hist.serveFailed

----------------------------------------------------------------------------
(* What the table holds when the session ends, under SpecSession.           *)

\* the table holds exactly one row for question q, with the local answer
PersistedAsHeld(q) ==
    /\ q \in DOMAIN answers
    /\ RowsFor(responses, q) = <<answers[q]>>

\* C23: when the session completes, the persisted response of every question
\* of the visible sequence holds the value of the local answers map, under
\* any interleaving of answer changes, Previous steps and saves in flight.
C23_PersistedEqualsLocal ==
    navigated => \A k \in DOMAIN visible : PersistedAsHeld(visible[k].id)

----------------------------------------------------------------------------
(* SpecPrior: one client, one saveResponse at a time.  hist keeps the       *)
(* answers the table held for the question when the call began.             *)

InitPrior ==
    /\ responses = <<>>
    /\ savers = [c \in {1} |-> IdleSaver]
    /\ flatQuestions = <<>> /\ answers = NoAnswers /\ visible = <<>>
    /\ hist = [op |-> "prior", q |-> NULL, before |-> <<>>]
    /\ ResultsAtRest /\ PageAtRest /\ ScorerAtRest

PriorCall ==
    /\ \E q \in StoreQuestions, a \in StoreAnswers :
          /\ SaveCall(1, q, a)
          /\ hist' = [op |-> "prior", q |-> q, before |-> RowsFor(responses, q)]
    /\ UNCHANGED <<resultVars, pageVars, scoreVars>>

PriorDelete ==
    /\ \E ok \in BOOLEAN : SaveDelete(1, ok)
    /\ UNCHANGED <<resultVars, pageVars, scoreVars, hist>>

PriorInsert ==
    /\ \E ok \in BOOLEAN : SaveInsert(1, ok)
    /\ UNCHANGED <<resultVars, pageVars, scoreVars, hist>>

NextPrior == PriorCall \/ PriorDelete \/ PriorInsert

SpecPrior == InitPrior /\ [][NextPrior]_vars

\* C24: when saveResponse fails, the answer the table held for the question
\* before the call is still in the table.
C24_FailedSaveKeepsPrior ==
    (hist.op = "prior" /\ savers[1].pc = "idle" /\ savers[1].result = "error") =>
        \A k \in DOMAIN hist.before :
            Includes(RowsFor(responses, hist.q), hist.before[k])

----------------------------------------------------------------------------
(* The rows of hidden questions, under SpecSession.                         *)

\* question q is in the visible sequence
Shown(q) == \E k \in DOMAIN visible : visible[k].id = q

\* C25: when the session completes, every row of the table belongs to a
\* question of the visible sequence, so the rows the scorer reads hold no
\* answer of a question that became hidden.
C25_PersistedAreVisible ==
    navigated => \A k \in DOMAIN responses : Shown(responses[k].question_id)

\* C26: every question of the visible sequence that has a condition has its
\* controlling question in the visible sequence too, so a question that
\* becomes hidden hides every question conditioned on it, directly or
\* through a chain.
C26_ControllerVisible ==
    \A k \in DOMAIN visible :
        HasCondition(visible[k]) => Shown(visible[k].condition_question_id)

----------------------------------------------------------------------------
(* The roadmap against the header count, under SpecRoadmap.                 *)

\* the places (phase, group, position) where a composed roadmap lists id
PlacesOf(composed, id) ==
    UNION { UNION { { <<p, g, k>> : k \in { j \in DOMAIN composed[p].groups[g].useCases :
                                             composed[p].groups[g].useCases[j].id = id } }
                    : g \in DOMAIN composed[p].groups }
            : p \in DOMAIN composed }

\* the per-phase totals of the summary row, added up
RECURSIVE SumOfTotals(_)
SumOfTotals(composed) ==
    IF composed = <<>> THEN 0
    ELSE Head(composed).total + SumOfTotals(Tail(composed))

\* C27: every offering of the scored list is in exactly one phase and one
\* sub-category group of the on-screen roadmap, and the per-phase totals add
\* up to the number of use cases the header announces.
C27_EveryOfferingPlacedOnce ==
    roadmap.set =>
        /\ \A k \in DOMAIN allUseCases :
              Cardinality(PlacesOf(roadmap.value, allUseCases[k].id)) = 1
        /\ SumOfTotals(roadmap.value) = Len(allUseCases)

\* the part of C27 that holds: no offering is listed twice, and the totals
\* count the offerings that have one of the three phases
C27_PlacedAtMostOnce ==
    roadmap.set =>
        /\ \A k \in DOMAIN allUseCases :
              Cardinality(PlacesOf(roadmap.value, allUseCases[k].id)) =
                 IF allUseCases[k].engagement_category = NULL THEN 0 ELSE 1
        /\ SumOfTotals(roadmap.value) =
              Cardinality({k \in DOMAIN allUseCases :
                              allUseCases[k].engagement_category # NULL})

----------------------------------------------------------------------------
(* The index before the effect of lines 168-172, under SpecSession.         *)

\* C28: on a catalog of at least one question whose conditions all name an
\* earlier question, the index every handler leaves is within the visible
\* sequence before the effect of lines 168-172 runs: the effect never has to
\* change it and the current question is never undefined.
C28_IndexInRangeBeforeClamp ==
    (flatQuestions # <<>> /\ WellOrdered(flatQuestions)) =>
        /\ visible # <<>>
        /\ 0 <= hist.preIndex /\ hist.preIndex < hist.preLen
        /\ HasCurrentQ(visible, currentIndex)

----------------------------------------------------------------------------
(* The failing save of a Next step, under SpecSession.                      *)

\* C29: when the save of a Next step fails, that step leaves the current
\* index and the local answers as they were, does not complete the session,
\* sets the error state and clears the saving flag.
C29_FailedSaveStaysPut ==
    [][(next.pc = "insert" /\ hist'.op = "failed") =>
          /\ currentIndex' = currentIndex
          /\ answers' = answers
          /\ visible' = visible
          /\ ~navigated'
          /\ error'
          /\ saving /\ ~saving']_vars

\* a save has failed on the second question of the sequence
C29_Witness ==
    /\ hist.op = "failed"
    /\ currentIndex = 1
    /\ Len(visible) >= 2
    /\ error /\ ~saving /\ ~navigated

----------------------------------------------------------------------------
(* SpecToggle: the cards of a loaded results page whose groups are long     *)
(* enough to hold several offerings after the third.  hist keeps the last   *)
(* click and the offering that was open before it.                          *)

\* offerings in the ranked list
MaxGroupCards == 5

ToggleColumns == [sub : {"Data"}, phase : {"A", "B"}, score : {MIN_SCORE}]

InitToggle ==
    /\ \E n \in 0..MaxGroupCards :
          \E c \in [1..n -> ToggleColumns] : allUseCases = RankedList(c)
    /\ recommended = Set(allUseCases)
    /\ roadmap = Set(Roadmap(allUseCases))
    /\ relevance = Relevance(allUseCases)
    /\ loading = FALSE
    /\ resultsError = FALSE
    /\ expandedUc = NULL
    /\ collapsedPhases = {}
    /\ emailRelevance = <<>>
    /\ invoke = "pending"
    /\ reply = NoReply
    /\ email = Unset
    /\ rules = <<>>
    /\ useCases = <<>>
    /\ hist = NoHist
    /\ flatQuestions = <<>> /\ answers = NoAnswers /\ visible = <<>>
    /\ PageAtRest /\ StoreAtRest

SpecToggle == InitToggle /\ [][NextExpand]_vars

\* the offerings after the third of their group whose card is expanded
ExpandedBeyondTop ==
    UNION { UNION { { roadmap.value[p].groups[g].useCases[k].id :
                        k \in { j \in DOMAIN roadmap.value[p].groups[g].useCases :
                                  /\ j > 3
                                  /\ IsExpanded(expandedUc,
                                        roadmap.value[p].groups[g].useCases[j], j - 1) } }
                    : g \in DOMAIN roadmap.value[p].groups }
            : p \in DOMAIN roadmap.value }

\* this step is a click on the card of an offering after the third of its group
ClickBeyondTop ==
    /\ hist' # hist /\ hist'.op = "click"
    /\ ~AmongFirstThree(roadmap.value, hist'.id)

\* a click opens a closed card and closes every other, and closes an open card
ClickToggles ==
    ClickBeyondTop =>
        /\ hist'.id \notin ExpandedBeyondTop => ExpandedBeyondTop' = {hist'.id}
        /\ hist'.id \in ExpandedBeyondTop => ExpandedBeyondTop' = {}

\* this step is the second of two clicks in a row on the same card
SecondClick == ClickBeyondTop /\ hist.op = "click" /\ hist.id = hist'.id

\* C30 as stated: at most one offering after the third of its group is
\* expanded, a click on such an offering toggles it and collapses the one
\* expanded before, and two clicks on the same offering restore the state
\* the page had before them.
C30_TwoClicksRestoreState ==
    /\ [](Cardinality(ExpandedBeyondTop) <= 1)
    /\ [][ClickToggles]_vars
    /\ [][SecondClick => expandedUc' = hist.before]_vars

\* C30: at most one offering after the third of its group is expanded, a
\* click on such an offering toggles it and collapses the one expanded
\* before, and two clicks on the same offering leave that offering as it was
\* before them; the whole page is as before when no other offering was
\* expanded, otherwise that other offering stays collapsed.
C30_AtMostOneExpandedToggle ==
    /\ [](Cardinality(ExpandedBeyondTop) <= 1)
    /\ [][ClickToggles]_vars
    /\ [][SecondClick =>
             /\ (expandedUc' = hist'.id) = (hist.before = hist'.id)
             /\ hist.before \in {NULL, hist'.id} => expandedUc' = hist.before
             /\ hist.before \notin {NULL, hist'.id} => expandedUc' = NULL]_vars

\* the fifth card of a group is open after the fourth was: the click closed
\* the fourth
C30_Witness ==
    /\ hist.op = "click"
    /\ hist.before # NULL /\ hist.before # hist.id
    /\ expandedUc = hist.id
    /\ ExpandedBeyondTop = {hist.id}

====
